---------------------------- MODULE Spec2Model ----------------------------
(***************************************************************************)
(* A model of hue/hue_backup.py (class HueBackup) driven as hue_br.py      *)
(* drives it: construct (fetch), optional backup, optional restore.        *)
(*                                                                         *)
(* Python strings are modelled as tuples of one-character strings, so that *)
(* concatenation, slicing, len() and the regular expressions of the source *)
(* are computed and not assumed.  A Python dict is modelled either as a    *)
(* sequence of entries in insertion order (the resource collections, whose *)
(* iteration order the code depends on) or as a TLA+ function (the         *)
(* identity maps, which are only looked up).  An optional JSON key is      *)
(* None (absent) or Some(v).                                               *)
(***************************************************************************)
EXTENDS Integers, Sequences, FiniteSets, TLC

None == <<>>
Some(x) == <<x>>
IsSome(o) == o # <<>>
The(o) == o[1]

Range(s) == {s[i] : i \in 1..Len(s)}

(***************************************************************************)
(* String literals of the source.                                          *)
(***************************************************************************)
S_lights == <<"l","i","g","h","t","s">>
S_groups == <<"g","r","o","u","p","s">>
S_sensors == <<"s","e","n","s","o","r","s">>
S_schedules == <<"s","c","h","e","d","u","l","e","s">>
S_rules == <<"r","u","l","e","s">>
S_scenes == <<"s","c","e","n","e","s">>
S_config == <<"c","o","n","f","i","g">>
S_resourcelinks == <<"r","e","s","o","u","r","c","e","l","i","n","k","s">>
S_api == <<"/","a","p","i","/">>
S_slash == <<"/">>
S_Daylight == <<"D","a","y","l","i","g","h","t">>

Digits == <<"0","1","2","3","4","5","6","7","8","9">>

Letters ==
  {"a","b","c","d","e","f","g","h","i","j","k","l","m","n","o","p","q","r",
   "s","t","u","v","w","x","y","z","A","B","C","D","E","F","G","H","I","J",
   "K","L","M","N","O","P","Q","R","S","T","U","V","W","X","Y","Z"}

\* the character class [a-zA-Z0-9_] of the address patterns
WordChars == Letters \cup Range(Digits) \cup {"_"}

\* Python str(n) for n >= 0
RECURSIVE StrOfNat(_)
StrOfNat(n) ==
  IF n < 10 THEN <<Digits[n + 1]>>
  ELSE StrOfNat(n \div 10) \o <<Digits[(n % 10) + 1]>>


(***************************************************************************)
(* The address patterns (hue_backup.py lines 6-8).                         *)
(***************************************************************************)
\* index of the last character of the maximal [a-zA-Z0-9_]* run starting at i
RECURSIVE WordEnd(_, _)
WordEnd(s, i) ==
  IF i <= Len(s) /\ s[i] \in WordChars THEN WordEnd(s, i + 1) ELSE i - 1

\* index of the last character of the maximal [^/]* run starting at i
RECURSIVE NonSlashEnd(_, _)
NonSlashEnd(s, i) ==
  IF i <= Len(s) /\ s[i] # "/" THEN NonSlashEnd(s, i + 1) ELSE i - 1

IsPrefixAt(p, s, i) ==
  /\ i + Len(p) - 1 <= Len(s)
  /\ SubSeq(s, i, i + Len(p) - 1) = p

NoMatch == [ok |-> FALSE, g1 |-> <<>>, g2 |-> <<>>, g3 |-> <<>>, g4 |-> <<>>]

\* ([a-zA-Z0-9_]+)/([a-zA-Z0-9_]+)([^a-zA-Z0-9_].*)?$ matched at position p,
\* after the prefix g1.  '.' matches no newline and '$' matches at the end
\* or before a final newline.  e2 and e3 are the ends of the two words, r is
\* what follows them.
MatchRest(s, p, g1, e2, e3, r) ==
  IF r = <<>>
  THEN [ok |-> TRUE, g1 |-> g1, g2 |-> SubSeq(s, p, e2),
        g3 |-> SubSeq(s, e2 + 2, e3), g4 |-> <<>>]
  ELSE IF "\n" \notin Range(Tail(r))
  THEN [ok |-> TRUE, g1 |-> g1, g2 |-> SubSeq(s, p, e2),
        g3 |-> SubSeq(s, e2 + 2, e3), g4 |-> r]
  ELSE IF r[Len(r)] = "\n" /\ "\n" \notin Range(SubSeq(r, 2, Len(r) - 1))
  THEN [ok |-> TRUE, g1 |-> g1, g2 |-> SubSeq(s, p, e2),
        g3 |-> SubSeq(s, e2 + 2, e3), g4 |-> SubSeq(r, 1, Len(r) - 1)]
  ELSE NoMatch

MatchSecond(s, p, g1, e2, e3) ==
  IF e3 < e2 + 2 THEN NoMatch
  ELSE MatchRest(s, p, g1, e2, e3, SubSeq(s, e3 + 1, Len(s)))

MatchFirst(s, p, g1, e2) ==
  IF e2 < p \/ e2 + 1 > Len(s) THEN NoMatch
  ELSE IF s[e2 + 1] # "/" THEN NoMatch
  ELSE MatchSecond(s, p, g1, e2, WordEnd(s, e2 + 2))

MatchTail(s, p, g1) == MatchFirst(s, p, g1, WordEnd(s, p))

\* MATCH_SCHEDULE_ADDRESS.match: k is the end of the key of /api/<key>/
MatchApi(s, k) ==
  IF IsPrefixAt(S_api, s, 1) /\ k >= 6 /\ k + 1 <= Len(s)
  THEN IF s[k + 1] = "/" THEN MatchTail(s, k + 2, SubSeq(s, 1, k + 1))
       ELSE NoMatch
  ELSE NoMatch

MATCH_SCHEDULE_ADDRESS(s) == MatchApi(s, NonSlashEnd(s, 6))

\* MATCH_RULE_ADDRESS.match
MATCH_RULE_ADDRESS(s) ==
  IF IsPrefixAt(S_slash, s, 1) THEN MatchTail(s, 2, S_slash) ELSE NoMatch

\* MATCH_RESOURCE_LINK.match: ^/([a-zA-Z0-9_]+)/([a-zA-Z0-9_]+), no anchor at
\* the end, so the second group is the maximal run
MatchLink(s, e1, e2) ==
  IF IsPrefixAt(S_slash, s, 1) /\ e1 >= 2 /\ e1 + 1 <= Len(s) /\ e2 >= e1 + 2
  THEN IF s[e1 + 1] = "/"
       THEN [ok |-> TRUE, g1 |-> SubSeq(s, 2, e1), g2 |-> SubSeq(s, e1 + 2, e2),
             g3 |-> <<>>, g4 |-> <<>>]
       ELSE NoMatch
  ELSE NoMatch

MATCH_RESOURCE_LINK(s) == MatchLink(s, WordEnd(s, 2), WordEnd(s, WordEnd(s, 2) + 2))

(***************************************************************************)
(* Python dicts.  OrderedDict: a sequence of entries [k, v] in insertion   *)
(* order; assigning to an existing key keeps the key's position.           *)
(***************************************************************************)
DictHas(d, k) == \E i \in 1..Len(d) : d[i].k = k
DictGet(d, k) == d[CHOOSE i \in 1..Len(d) : d[i].k = k].v
DictPut(d, k, v) ==
  IF DictHas(d, k)
  THEN [i \in 1..Len(d) |-> IF d[i].k = k THEN [k |-> k, v |-> v] ELSE d[i]]
  ELSE Append(d, [k |-> k, v |-> v])

\* a resource collection: the entries of a JSON object id -> data, in order
HasId(coll, id) == \E i \in 1..Len(coll) : coll[i].id = id
Find(coll, id) == coll[CHOOSE i \in 1..Len(coll) : coll[i].id = id]
Ids(coll) == {coll[i].id : i \in 1..Len(coll)}

\* a TLA+ function as dict: m[k] = v
MapPut(m, k, v) == [x \in DOMAIN m \cup {k} |-> IF x = k THEN v ELSE m[x]]
EmptyMap == [x \in {} |-> <<>>]

\* dict.update for JSON bodies (records)
Merge(old, body) ==
  [f \in DOMAIN old \cup DOMAIN body |->
     IF f \in DOMAIN body THEN body[f] ELSE old[f]]

(***************************************************************************)
(* Output.  A line is [lvl, msg, arg]: msg is the constant part of the     *)
(* printed text and arg the tuple of the strings concatenated to it (a     *)
(* type or flag that the text also names is left out).                     *)
(***************************************************************************)
Warn(msg, arg) == [lvl |-> "WARNING", msg |-> msg, arg |-> arg]
Err(msg, arg) == [lvl |-> "ERROR", msg |-> msg, arg |-> arg]
IsErr(line) == line.lvl = "ERROR"
ErrorsOf(log) == SelectSeq(log, IsErr)

(***************************************************************************)
(* __fixNames (lines 47-78).  A tree is a resource collection; the result  *)
(* is [tree, names, duplicates, log].                                      *)
(***************************************************************************)
\* lines 69 and 72: the longest name the method makes
MaxNameLen == 31

\* lines 52-56: the names that more than one entry has, each with index 0
Duplicates(tree) ==
  [n \in {tree[i].name : i \in {i \in 1..Len(tree) :
                                  \E j \in 1..(i - 1) : tree[j].name = tree[i].name}}
     |-> 0]

\* lines 68-72: the name tried for an index
FixedName(name, index) ==
  IF Len(name \o StrOfNat(index)) > MaxNameLen
  THEN SubSeq(StrOfNat(index) \o name, 1, MaxNameLen)
  ELSE name \o StrOfNat(index)

\* the next index, whether its name is a name already or not
NextFree_unchecked(names, name, index) == index + 1

\* lines 66-77: the first index above index whose name is no name yet
RECURSIVE NextFree(_, _, _)
NextFree(names, name, index) ==
  IF FixedName(name, index + 1) \notin names THEN index + 1
  ELSE NextFree(names, name, index + 1)

\* lines 74-78: the n-th entry gets the name of the index found
fixNames_renamed(st, resource, n, data, index) ==
  [tree |-> [st.tree EXCEPT ![n].name = FixedName(data.name, index)],
   names |-> st.names \cup {FixedName(data.name, index)},
   duplicates |-> [st.duplicates EXCEPT ![data.name] = index],
   log |-> Append(st.log,
                  Warn("fixing duplicate name to for resource",
                       <<data.name, FixedName(data.name, index), resource,
                         data.id>>))]

\* lines 60-78: the second pass for the n-th entry
fixNames_step(st, resource, n, data) ==
  IF data.name \notin DOMAIN st.duplicates THEN st
  ELSE IF st.duplicates[data.name] = 0
  THEN [st EXCEPT !.duplicates[data.name] = 1]
  ELSE fixNames_renamed(st, resource, n, data,
                        NextFree(st.names, data.name, st.duplicates[data.name]))

RECURSIVE fixNames_upTo(_, _, _)
fixNames_upTo(resource, tree, n) ==
  IF n = 0
  THEN [tree |-> tree, names |-> {tree[i].name : i \in 1..Len(tree)},
        duplicates |-> Duplicates(tree), log |-> <<>>]
  ELSE fixNames_step(fixNames_upTo(resource, tree, n - 1), resource, n, tree[n])

fixNames(resource, tree) == fixNames_upTo(resource, tree, Len(tree))

(***************************************************************************)
(* State.                                                                  *)
(***************************************************************************)
VARIABLES
  pc,                  \* the statement of hue_br.py / restore() being run
  stage,               \* "enter": before the phase's loop, "loop": inside it
  idx,                 \* loop iterations of the current phase done so far
  args,                \* command line: [backup, restore]
  file,                \* the snapshot file named by --restore
  written,             \* the file written by --backup: None until it is written
  hub,                 \* the bridge's resources, per type, and its id counter
  current,             \* self.__current
  target,              \* self.__target
  map_light,           \* self.__map_light
  map_sensor,          \* self.__map_sensor
  map_group,           \* self.__map_group
  map_scene,           \* self.__map_scene
  map_schedule,        \* self.__map_schedule
  map_rule,            \* self.__map_rule
  map_resource_links,  \* self.__map_resource_links
  updates,             \* self.__updates
  errors,              \* self.__errors
  out,                 \* printed WARNING / ERROR / report lines
  calls,               \* requests sent to the bridge, in order
  lookups,             \* <<phase, type>> of every identity-map lookup of __mapAddress / __mapAction
  history,             \* the statements of restore() begun so far, in order
  abort,               \* "none", or why the process died
  probe                \* a function applied by itself: its arguments and result

maps == <<map_light, map_sensor, map_group, map_scene, map_schedule, map_rule,
          map_resource_links>>
vars == <<pc, stage, idx, args, file, written, hub, current, target, maps,
          updates, errors, out, calls, lookups, history, abort, probe>>

NoProbe == [fn |-> "none"]

NoResources ==
  [lights |-> <<>>, sensors |-> <<>>, groups |-> <<>>, scenes |-> <<>>,
   schedules |-> <<>>, rules |-> <<>>, resourcelinks |-> <<>>]

ResourceTypes == {"lights", "sensors", "groups", "scenes", "schedules", "rules",
                  "resourcelinks"}

(***************************************************************************)
(* The bridge.  A request is [method, rtype, id, body]; id is None for the *)
(* collection itself.  The bridge answers an error for a resource that     *)
(* does not exist; any request may also fail in transport.                 *)
(***************************************************************************)
Req(method, rtype, id, body) ==
  [method |-> method, rtype |-> rtype, id |-> id, body |-> body]

HubHas(h, rtype, id) == HasId(h.res[rtype], id)

\* whether the bridge can answer the request with success
HubAccepts(h, rq) ==
  IF rq.method = "POST" \/ rq.rtype = "" THEN TRUE
  ELSE HubHas(h, rq.rtype, The(rq.id))

\* the id the bridge gives the next created resource
HubNewId(h) == StrOfNat(h.nextid)

\* the bridge after a successful request
HubApply(h, rq) ==
  LET coll == h.res[rq.rtype]
  IN CASE rq.method = "PUT" ->
            [h EXCEPT !.res[rq.rtype] =
               [i \in 1..Len(coll) |->
                  IF coll[i].id = The(rq.id) THEN Merge(coll[i], rq.body)
                  ELSE coll[i]]]
       [] rq.method = "POST" ->
            [h EXCEPT !.res[rq.rtype] =
                        Append(coll, Merge([id |-> HubNewId(h)], rq.body)),
                      !.nextid = h.nextid + 1]
       [] rq.method = "DELETE" ->
            [h EXCEPT !.res[rq.rtype] =
               SelectSeq(coll, LAMBDA e : e.id # The(rq.id))]
       [] OTHER -> h

(***************************************************************************)
(* restore(): the order of its statements (lines 110-132).                 *)
(***************************************************************************)
\* the order with the groups restored before the sensors
PhaseAfter_groupsFirst(p) ==
  CASE p = "fetch" -> "lights"
    [] p = "lights" -> "flush_lights"
    [] p = "flush_lights" -> "groups"
    [] p = "groups" -> "sensors"
    [] p = "sensors" -> "flush_sensors"
    [] p = "flush_sensors" -> "scenes"
    [] p = "scenes" -> "schedules"
    [] p = "schedules" -> "rules"
    [] p = "rules" -> "resourcelinks"
    [] p = "resourcelinks" -> "cleanup"
    [] p = "cleanup" -> "report"
    [] OTHER -> "exit"

PhaseAfter(p) ==
  CASE p = "fetch" -> "lights"
    [] p = "lights" -> "flush_lights"
    [] p = "flush_lights" -> "sensors"
    [] p = "sensors" -> "flush_sensors"
    [] p = "flush_sensors" -> "groups"
    [] p = "groups" -> "scenes"
    [] p = "scenes" -> "schedules"
    [] p = "schedules" -> "rules"
    [] p = "rules" -> "resourcelinks"
    [] p = "resourcelinks" -> "cleanup"
    [] p = "cleanup" -> "report"
    [] OTHER -> "exit"

\* the phases whose code before the loop does something
HasEnter(p) ==
  p \in {"lights", "sensors", "groups", "scenes", "schedules", "rules",
         "resourcelinks"}

(***************************************************************************)
(* One step of a method: what it prints (log), the requests it sends       *)
(* (reqs), whether it then dies of a Python exception other than a failed  *)
(* request (crash), and the values of the object's attributes after it     *)
(* (new).  Step(r) is the step as a transition: the requests are sent in   *)
(* order, the first one that fails raises and ends the process.            *)
(***************************************************************************)
Attrs ==
  [map_light |-> map_light, map_sensor |-> map_sensor, map_group |-> map_group,
   map_scene |-> map_scene, map_schedule |-> map_schedule,
   map_rule |-> map_rule, map_resource_links |-> map_resource_links,
   updates |-> updates]

Result(log, reqs, crash, new, seen) ==
  [log |-> log, reqs |-> reqs, crash |-> crash, new |-> new, seen |-> seen]

\* the bridge after the first k requests of reqs succeeded
RECURSIVE HubAfter(_, _, _)
HubAfter(h, reqs, k) ==
  IF k = 0 THEN h ELSE HubApply(HubAfter(h, reqs, k - 1), reqs[k])

\* the first k requests can all succeed
AllAccepted(h, reqs, k) ==
  \A j \in 1..k : HubAccepts(HubAfter(h, reqs, j - 1), reqs[j])

Sent(reqs, k) ==
  [j \in 1..(IF k < Len(reqs) THEN k + 1 ELSE k) |->
     [req |-> reqs[j], ok |-> j <= k]]

\* the lines printed when only the first k requests succeed: a line is
\* printed after r.pos[i] requests (after none, when the step has no pos)
RECURSIVE PrintedUpTo(_, _, _)
PrintedUpTo(r, k, n) ==
  IF n = 0 THEN <<>>
  ELSE PrintedUpTo(r, k, n - 1) \o
       (IF r.pos[n] <= k THEN <<r.log[n]>> ELSE <<>>)

Printed(r, k) ==
  IF "pos" \in DOMAIN r THEN PrintedUpTo(r, k, Len(r.log)) ELSE r.log

\* a step that takes a failed request for a successful one and goes on
Step_goingOn(r, nextStage, nextIdx) ==
  \E k \in 0..Len(r.reqs) :
    /\ AllAccepted(hub, r.reqs, k)
    /\ out' = out \o Printed(r, k)
    /\ errors' = errors \o ErrorsOf(Printed(r, k))
    /\ lookups' = lookups \cup {<<pc, t>> : t \in r.seen}
    /\ calls' = calls \o Sent(r.reqs, k)
    /\ hub' = HubAfter(hub, r.reqs, k)
    /\ UNCHANGED <<args, file, probe, written, current, target, history, abort, pc>>
    /\ stage' = nextStage
    /\ idx' = nextIdx
    /\ map_light' = r.new.map_light
    /\ map_sensor' = r.new.map_sensor
    /\ map_group' = r.new.map_group
    /\ map_scene' = r.new.map_scene
    /\ map_schedule' = r.new.map_schedule
    /\ map_rule' = r.new.map_rule
    /\ map_resource_links' = r.new.map_resource_links
    /\ updates' = r.new.updates

Step(r, nextStage, nextIdx) ==
  \E k \in 0..Len(r.reqs) :
    /\ AllAccepted(hub, r.reqs, k)
    /\ out' = out \o Printed(r, k)
    /\ errors' = errors \o ErrorsOf(Printed(r, k))
    /\ lookups' = lookups \cup {<<pc, t>> : t \in r.seen}
    /\ calls' = calls \o Sent(r.reqs, k)
    /\ hub' = HubAfter(hub, r.reqs, k)
    /\ UNCHANGED <<args, file, probe, written, current, target, history>>
    /\ IF k < Len(r.reqs) \/ r.crash
       THEN /\ abort' = IF k < Len(r.reqs) THEN "request" ELSE "exception"
            /\ pc' = "dead"
            /\ UNCHANGED <<stage, idx, maps, updates>>
       ELSE /\ abort' = abort
            /\ pc' = pc
            /\ stage' = nextStage
            /\ idx' = nextIdx
            /\ map_light' = r.new.map_light
            /\ map_sensor' = r.new.map_sensor
            /\ map_group' = r.new.map_group
            /\ map_scene' = r.new.map_scene
            /\ map_schedule' = r.new.map_schedule
            /\ map_rule' = r.new.map_rule
            /\ map_resource_links' = r.new.map_resource_links
            /\ updates' = r.new.updates

(***************************************************************************)
(* __make_map (lines 693-702): uniqueid -> id, the last entry with a       *)
(* uniqueid wins; an entry without uniqueid is an error unless it is       *)
(* named Daylight.                                                         *)
(***************************************************************************)
RECURSIVE MakeMapUpTo(_, _)
MakeMapUpTo(source, n) ==
  IF n = 0 THEN [m |-> <<>>, log |-> <<>>]
  ELSE LET prev == MakeMapUpTo(source, n - 1)
           data == source[n]
       IN IF IsSome(data.uniqueid)
          THEN [m |-> DictPut(prev.m, The(data.uniqueid), data.id),
                log |-> IF DictHas(prev.m, The(data.uniqueid))
                        THEN Append(prev.log,
                                    Err("duplicate uniqueid", <<The(data.uniqueid)>>))
                        ELSE prev.log]
          ELSE IF data.name # S_Daylight
          THEN [m |-> prev.m,
                log |-> Append(prev.log,
                               Err("missing uniqueid for index", <<data.id>>))]
          ELSE prev

make_map(source) == MakeMapUpTo(source, Len(source))

(***************************************************************************)
(* __restoreLights (lines 134-159).                                        *)
(***************************************************************************)
\* lines 138-142
restoreLights_enter ==
  Result(make_map(current.lights).log \o make_map(target.lights).log,
         <<>>, FALSE, Attrs, {})

\* the loop body without the warning for a light the bridge does not have
restoreLights_body_quiet(uniq, index) ==
  IF DictHas(make_map(current.lights).m, uniq)
  THEN Result(<<>>, <<>>, FALSE,
              [Attrs EXCEPT
                 !.map_light = MapPut(map_light, index,
                                      DictGet(make_map(current.lights).m, uniq))],
              {})
  ELSE Result(<<>>, <<>>, FALSE, Attrs, {})

\* lines 144-158: the loop body for the entry (uniq, index) of tm
restoreLights_body(uniq, index) ==
  LET s  == current.lights
      t  == target.lights
      sm == make_map(s).m
  IN IF DictHas(sm, uniq)
     THEN LET si    == DictGet(sm, uniq)
              sname == Find(s, si).name
              tname == Find(t, index).name
          IN Result(<<>>, <<>>, FALSE,
                    [Attrs EXCEPT
                       !.map_light = MapPut(map_light, index, si),
                       !.updates =
                          IF sname # tname
                          THEN Append(updates,
                                 Req("PUT", "lights", Some(si), [name |-> tname]))
                          ELSE updates],
                    {})
     ELSE Result(<<Warn("light cannot be restored, since it doesn't exist in target bridge", <<uniq>>)>>,
                 <<>>, FALSE, Attrs, {})

restoreLights_tm == make_map(target.lights).m

(***************************************************************************)
(* __restoreSensors (lines 161-203).  A sensor's "config" is the set of    *)
(* its keys; "recycle" stands for the attributes copied unchanged into the *)
(* body of a created sensor (modelid, swversion, manufacturername,         *)
(* recycle).                                                               *)
(***************************************************************************)
CopiedConfigKeys == {"on", "sunriseoffset", "sunsetoffset"}

\* lines 165-169
restoreSensors_enter ==
  Result(make_map(current.sensors).log \o make_map(target.sensors).log,
         <<>>, FALSE, Attrs, {})

\* lines 171-202: the loop body for the entry (uniq, index) of tm
restoreSensors_body(uniq, index) ==
  LET s      == current.sensors
      t      == target.sensors
      sm     == make_map(s).m
      data   == Find(t, index)
      config == data.config \cap CopiedConfigKeys
      withConfig(body) ==
        IF config # {} THEN Merge(body, [config |-> config]) ELSE body
  IN IF DictHas(sm, uniq)
     THEN LET si    == DictGet(sm, uniq)
              sname == Find(s, si).name
              tname == data.name
          IN Result(IF Find(s, si).type # data.type
                    THEN <<Err("sensor has different type, expected", <<uniq>>)>>
                    ELSE <<>>,
                    <<>>, FALSE,
                    [Attrs EXCEPT
                       !.map_sensor = MapPut(map_sensor, index, si),
                       !.updates =
                          IF sname # tname
                          THEN Append(updates,
                                 Req("PUT", "sensors", Some(si),
                                     withConfig([name |-> tname])))
                          ELSE updates],
                    {})
     ELSE IF data.type = "CLIPGenericFlag" \/ data.type = "CLIPGenericStatus"
     THEN Result(<<>>,
                 <<Req("POST", "sensors", None,
                       withConfig([name |-> data.name, type |-> data.type,
                                   uniqueid |-> Some(uniq),
                                   recycle |-> data.recycle]))>>,
                 FALSE,
                 [Attrs EXCEPT
                    !.map_sensor = MapPut(map_sensor, index, HubNewId(hub))],
                 {})
     ELSE Result(<<Warn("sensor cannot be restored, since it doesn't exist in target bridge", <<uniq>>)>>,
                 <<>>, FALSE, Attrs, {})

restoreSensors_tm == make_map(target.sensors).m

(***************************************************************************)
(* The index of a collection by name, as the restore methods build it:     *)
(* name -> id, the last entry with a name wins, a repeated name is an      *)
(* error.                                                                  *)
(***************************************************************************)
NameIdx(coll) ==
  [n \in {coll[i].name : i \in 1..Len(coll)} |->
     coll[CHOOSE i \in 1..Len(coll) :
            /\ coll[i].name = n
            /\ \A j \in (i + 1)..Len(coll) : coll[j].name # n].id]

RECURSIVE NameIdxLog(_, _, _)
NameIdxLog(coll, n, msg) ==
  IF n = 0 THEN <<>>
  ELSE NameIdxLog(coll, n - 1, msg) \o
       (IF \E j \in 1..(n - 1) : coll[j].name = coll[n].name
        THEN <<Err(msg, <<coll[n].name>>)>> ELSE <<>>)

\* the error of the target loop for a name seen before in the loop: the
\* entries before position n that the loop indexed are those of `before`
DupTargetLog(before, data, msg) ==
  IF \E j \in 1..Len(before) : before[j].name = data.name
  THEN <<Err(msg, <<data.name, data.id, NameIdx(before)[data.name]>>)>>
  ELSE <<>>

\* the translation with the ids that are in no map left as they are
Translated_all(ids, m) ==
  [i \in 1..Len(ids) |-> IF ids[i] \in DOMAIN m THEN m[ids[i]] ELSE ids[i]]

\* ids translated through a map; the ones not in it are missing
Translated(ids, m) ==
  LET known == SelectSeq(ids, LAMBDA x : x \in DOMAIN m)
  IN [i \in 1..Len(known) |-> m[known[i]]]
Missing(ids, m) == SelectSeq(ids, LAMBDA x : x \notin DOMAIN m)

(***************************************************************************)
(* __restoreGroups (lines 205-265).                                        *)
(***************************************************************************)
\* lines 209-216
restoreGroups_enter ==
  Result(NameIdxLog(current.groups, Len(current.groups), "duplicate group name"),
         <<>>, FALSE, Attrs, {})

\* lines 218-264: the loop body for the n-th group of the snapshot
restoreGroups_body(n) ==
  LET s       == current.groups
      t       == target.groups
      nameidx == NameIdx(s)
      data    == t[n]
      index   == data.id
      name    == data.name
      dup     == DupTargetLog(SubSeq(t, 1, n - 1), data, "duplicate group name at index and")
      lights  == Translated(data.lights, map_light)
      sensors == Translated(data.sensors, map_sensor)
      \* self.__target["lights"][lidx]["name"] raises KeyError for an id the
      \* snapshot does not hold
      keyError ==
        \/ \E l \in Range(Missing(data.lights, map_light)) :
             ~HasId(target.lights, l)
        \/ \E x \in Range(Missing(data.sensors, map_sensor)) :
             ~HasId(target.sensors, x)
      missing ==
        [i \in 1..Len(Missing(data.lights, map_light)) |->
           Find(target.lights, Missing(data.lights, map_light)[i]).name]
        \o
        [i \in 1..Len(Missing(data.sensors, map_sensor)) |->
           Find(target.sensors, Missing(data.sensors, map_sensor)[i]).name]
      body0   == [name |-> name, lights |-> lights, sensors |-> sensors]
      body    == IF IsSome(data.class)
                 THEN Merge(body0, [class |-> data.class]) ELSE body0
      warn    == IF missing # <<>>
                 THEN <<Warn("group is missing lights or sensors",
                             <<name>> \o missing)>>
                 ELSE <<>>
  IN IF keyError THEN Result(dup, <<>>, TRUE, Attrs, {})
     ELSE IF Len(lights) = 0
     THEN Result(dup \o <<Warn("group cannot be restored, since it doesn't contain any lights in the target bridge", <<name>>)>>,
                 <<>>, FALSE, Attrs, {})
     ELSE IF name \in DOMAIN nameidx
     THEN IF Find(s, nameidx[name]).type # data.type
          THEN Result(dup \o warn \o
                      <<Err("group has different type, expected", <<name>>)>>,
                      <<>>, FALSE, Attrs, {})
          ELSE Result(dup \o warn,
                      <<Req("PUT", "groups", Some(nameidx[name]), body)>>,
                      FALSE,
                      [Attrs EXCEPT
                         !.map_group = MapPut(map_group, index, nameidx[name])],
                      {})
     ELSE Result(dup \o warn,
                 <<Req("POST", "groups", None,
                       Merge(body, [type |-> data.type]))>>,
                 FALSE,
                 [Attrs EXCEPT
                    !.map_group = MapPut(map_group, index, HubNewId(hub))],
                 {})

(***************************************************************************)
(* __sceneKey (lines 267-284).  None stands for the exception raised for   *)
(* an unknown scene type (or the KeyError of a GroupScene without group).  *)
(***************************************************************************)
\* __sceneKey with the group of a scene of the snapshot left as it is
sceneKey_unmapped(guid, data, mapgroup) ==
  IF data.type = "GroupScene"
  THEN IF ~IsSome(data.group) THEN None
       ELSE Some(The(data.group) \o <<"%">> \o data.name)
  ELSE IF data.type = "LightScene"
  THEN IF IsSome(data.appdata)
       THEN Some(The(data.appdata) \o <<"!">> \o data.name)
       ELSE Some(guid \o <<"!">> \o data.name)
  ELSE None

sceneKey(guid, data, mapgroup) ==
  IF data.type = "GroupScene"
  THEN IF ~IsSome(data.group) THEN None
       ELSE LET g0 == The(data.group)
                g  == IF mapgroup
                      THEN IF g0 \in DOMAIN map_group THEN map_group[g0]
                           ELSE <<"~">> \o g0
                      ELSE g0
            IN Some(g \o <<"%">> \o data.name)
  ELSE IF data.type = "LightScene"
  THEN IF IsSome(data.appdata)
       THEN Some(The(data.appdata) \o <<"!">> \o data.name)
       ELSE Some(guid \o <<"!">> \o data.name)
  ELSE None

\* lines 294-298 and 299-303: key -> guid over the first n scenes
RECURSIVE SceneMapUpTo(_, _, _)
SceneMapUpTo(coll, n, mapgroup) ==
  IF n = 0 THEN [m |-> <<>>, log |-> <<>>, raised |-> FALSE]
  ELSE LET prev == SceneMapUpTo(coll, n - 1, mapgroup)
           data == coll[n]
           key  == sceneKey(data.id, data, mapgroup)
       IN IF prev.raised THEN prev
          ELSE IF ~IsSome(key) THEN [prev EXCEPT !.raised = TRUE]
          ELSE [m |-> DictPut(prev.m, The(key), data.id),
                log |-> IF DictHas(prev.m, The(key))
                        THEN Append(prev.log,
                               Err(IF mapgroup
                                   THEN "to-be-restored scene has duplicate key"
                                   ELSE "current scene has duplicate key",
                                   <<data.id, The(key)>>))
                        ELSE prev.log,
                raised |-> FALSE]

restoreScenes_sm == SceneMapUpTo(current.scenes, Len(current.scenes), FALSE)
restoreScenes_tm == SceneMapUpTo(target.scenes, Len(target.scenes), TRUE)

\* MATCH_HUEAPP_SCENEDATA.match (line 5): ^(.....)_r([0-9][0-9])_d([0-9][0-9])$
MATCH_HUEAPP_SCENEDATA(d) ==
  LET n == IF Len(d) = 14 /\ d[14] = "\n" THEN 13 ELSE Len(d)
  IN /\ n = 13
     /\ \A i \in 1..5 : d[i] # "\n"
     /\ SubSeq(d, 6, 7) = <<"_", "r">>
     /\ SubSeq(d, 10, 11) = <<"_", "d">>
     /\ \A i \in {8, 9, 12, 13} : d[i] \in Range(Digits)

\* lines 290-304
restoreScenes_enter ==
  LET sm == restoreScenes_sm
      tm == restoreScenes_tm
  IN IF sm.raised THEN Result(sm.log, <<>>, TRUE, Attrs, {})
     ELSE IF tm.raised THEN Result(sm.log \o tm.log, <<>>, TRUE, Attrs, {})
     ELSE Result(sm.log \o tm.log, <<>>, FALSE,
                 [Attrs EXCEPT !.map_scene = EmptyMap], {})

\* the appdata of a created scene with the group id as it is
NewSceneData_unpadded(guid, data, group) ==
  LET d == IF IsSome(data.appdata) THEN The(data.appdata) ELSE guid
  IN IF data.type = "GroupScene" /\ MATCH_HUEAPP_SCENEDATA(d)
     THEN SubSeq(d, 1, 5) \o <<"_", "r">> \o group \o <<"_", "d">> \o SubSeq(d, 12, 13)
     ELSE d

\* lines 362-369: the appdata of a created scene
NewSceneData(guid, data, group) ==
  LET d == IF IsSome(data.appdata) THEN The(data.appdata) ELSE guid
      g == IF Len(group) = 1 THEN <<"0">> \o group ELSE group
  IN IF data.type = "GroupScene" /\ MATCH_HUEAPP_SCENEDATA(d)
     THEN SubSeq(d, 1, 5) \o <<"_", "r">> \o g \o <<"_", "d">> \o SubSeq(d, 12, 13)
     ELSE d

\* lines 305-375: the loop body for the entry (key, guid) of tm
restoreScenes_body(key, guid) ==
  LET s    == current.scenes
      t    == target.scenes
      sm   == restoreScenes_sm.m
      data == Find(t, guid)
      hasGroup  == IsSome(data.group)
      hasLights == ~hasGroup /\ IsSome(data.lights)
      lights  == Translated(The(data.lights), map_light)
      missing == Missing(The(data.lights), map_light)
      body0 == [name |-> data.name]
      body1 == IF hasGroup
               THEN Merge(body0, [group |-> map_group[The(data.group)]])
               ELSE IF hasLights THEN Merge(body0, [lights |-> lights])
               ELSE body0
      partial ==
        IF hasLights
        THEN <<Warn("scene can be only partially restored, missing lights",
                    <<guid>> \o [i \in 1..Len(missing) |->
                                   Find(target.lights, missing[i]).name])>>
        ELSE <<>>
      \* the lights that have a state in the body
      lightstates == Translated(The(data.lightstates), map_light)
  IN IF hasGroup /\ The(data.group) \notin DOMAIN map_group
     THEN IF HasId(target.groups, The(data.group))
          THEN Result(<<Warn("scene cannot be restored, missing group",
                             <<guid, Find(target.groups, The(data.group)).name>>)>>,
                      <<>>, FALSE, Attrs, {})
          ELSE Result(<<>>, <<>>, TRUE, Attrs, {})
     ELSE IF hasLights /\ \E l \in Range(missing) : ~HasId(target.lights, l)
     THEN Result(<<>>, <<>>, TRUE, Attrs, {})
     ELSE IF hasLights /\ Len(lights) = 0
     THEN Result(<<Warn("scene cannot be restored, missing all lights",
                        <<guid>> \o [i \in 1..Len(missing) |->
                                       Find(target.lights, missing[i]).name])>>,
                 <<>>, FALSE, Attrs, {})
     ELSE IF ~IsSome(data.lightstates)
     THEN Result(partial \o
                 <<Err("scene cannot be restored, since light states are not present in backup", <<guid>>)>>,
                 <<>>, FALSE, Attrs, {})
     ELSE IF DictHas(sm, key)
     THEN LET old == Find(s, DictGet(sm, key))
          IN IF old.type # data.type
             THEN Result(partial \o
                         <<Err("scene has different type, expected", <<guid>>)>>,
                         <<>>, FALSE, Attrs, {})
             ELSE IF old.recycle # data.recycle
             \* "..." + data["recycle"] raises TypeError: recycle is a JSON boolean
             THEN Result(partial, <<>>, TRUE, Attrs, {})
             ELSE Result(partial,
                         <<Req("PUT", "scenes", Some(DictGet(sm, key)),
                               Merge([f \in DOMAIN body1 \ {"group"} |-> body1[f]],
                                     [lightstates |-> Some(lightstates)]))>>,
                         FALSE,
                         [Attrs EXCEPT
                            !.map_scene = MapPut(map_scene, guid, DictGet(sm, key))],
                         {})
     ELSE LET body2 == Merge(body1,
                         [type |-> data.type, recycle |-> data.recycle,
                          appdata |-> Some(NewSceneData(guid, data,
                                        IF hasGroup THEN body1.group ELSE <<>>))])
              body3 == IF lightstates # <<>>
                       THEN Merge(body2, [lightstates |-> Some(lightstates)])
                       ELSE body2
          IN Result(partial, <<Req("POST", "scenes", None, body3)>>, FALSE,
                    [Attrs EXCEPT
                       !.map_scene = MapPut(map_scene, guid, HubNewId(hub))],
                    {})

(***************************************************************************)
(* __mapAddress (lines 379-439) and __mapAction (lines 441-460).  The      *)
(* result is [ok, address, ctype, log, seen]: seen holds the types whose   *)
(* identity map was looked up.                                             *)
(***************************************************************************)
apiKey == <<"K">>

MappedTypes ==
  <<[ctype |-> S_lights, name |-> "lights"],
    [ctype |-> S_groups, name |-> "groups"],
    [ctype |-> S_sensors, name |-> "sensors"],
    [ctype |-> S_schedules, name |-> "schedules"],
    [ctype |-> S_rules, name |-> "rules"],
    [ctype |-> S_scenes, name |-> "scenes"]>>

MapOf(name) ==
  CASE name = "lights" -> map_light
    [] name = "groups" -> map_group
    [] name = "sensors" -> map_sensor
    [] name = "schedules" -> map_schedule
    [] name = "rules" -> map_rule
    [] name = "scenes" -> map_scene

Unmapped(log, seen) ==
  [ok |-> FALSE, address |-> <<>>, ctype |-> <<>>, log |-> log, seen |-> seen]

\* the warning names the type and the id that is in no map
NonExisting(ctype, cid) ==
  Warn("not importing resource referencing non-existing", <<ctype, cid>>)

\* the address without what follows the id
Rebuilt_noSuffix(with_api, match, id) ==
  IF with_api THEN S_api \o apiKey \o S_slash \o match.g2 \o S_slash \o id
  ELSE S_slash \o match.g2 \o S_slash \o id

Rebuilt(with_api, match, id) ==
  (IF with_api THEN S_api \o apiKey \o S_slash \o match.g2 \o S_slash \o id
   ELSE S_slash \o match.g2 \o S_slash \o id) \o match.g4

\* an id that is in no map is written as it is
mapAddress_typed_passing(with_api, match, ty) ==
  [ok |-> TRUE,
   address |-> Rebuilt(with_api, match,
                       IF match.g3 \in DOMAIN MapOf(ty.name)
                       THEN MapOf(ty.name)[match.g3] ELSE match.g3),
   ctype |-> match.g2, log |-> <<>>, seen |-> {ty.name}]

\* lines 394-429 for the mapped type ty
mapAddress_typed(with_api, match, ty) ==
  IF match.g3 \in DOMAIN MapOf(ty.name)
  THEN [ok |-> TRUE,
        address |-> Rebuilt(with_api, match, MapOf(ty.name)[match.g3]),
        ctype |-> match.g2, log |-> <<>>, seen |-> {ty.name}]
  ELSE Unmapped(<<NonExisting(match.g2, match.g3)>>, {ty.name})

\* a type without a map passes as config does
mapAddress_matched_lenient(address, with_api, match) ==
  IF ~match.ok
  THEN Unmapped(<<Err("unknown schedule/rule address", <<address>>)>>, {})
  ELSE IF \E i \in 1..Len(MappedTypes) : MappedTypes[i].ctype = match.g2
  THEN mapAddress_typed(with_api, match,
         MappedTypes[CHOOSE i \in 1..Len(MappedTypes) :
                       MappedTypes[i].ctype = match.g2])
  ELSE [ok |-> TRUE, address |-> Rebuilt(with_api, match, match.g3),
        ctype |-> match.g2, log |-> <<>>, seen |-> {}]

\* lines 389-439 for the match of the pattern
mapAddress_matched(address, with_api, match) ==
  IF ~match.ok
  THEN Unmapped(<<Err("unknown schedule/rule address", <<address>>)>>, {})
  ELSE IF \E i \in 1..Len(MappedTypes) : MappedTypes[i].ctype = match.g2
  THEN mapAddress_typed(with_api, match,
         MappedTypes[CHOOSE i \in 1..Len(MappedTypes) :
                       MappedTypes[i].ctype = match.g2])
  ELSE IF match.g2 # S_config
  THEN Unmapped(<<Err("unsupported resource type in", <<address>>)>>, {})
  ELSE [ok |-> TRUE, address |-> Rebuilt(with_api, match, match.g3),
        ctype |-> match.g2, log |-> <<>>, seen |-> {}]

mapAddress(address, with_api) ==
  mapAddress_matched(address, with_api,
                     IF with_api THEN MATCH_SCHEDULE_ADDRESS(address)
                     ELSE MATCH_RULE_ADDRESS(address))

\* the scene of an action on a group is written as it is, in the map or not
mapAction_mapped_sameScene(action, a) ==
  IF ~a.ok
  THEN [ok |-> FALSE, action |-> action, log |-> a.log, seen |-> a.seen]
  ELSE [ok |-> TRUE,
        action |-> [address |-> a.address, body |-> action.body],
        log |-> a.log, seen |-> a.seen]

\* an action is [address, body]; body is [scene]: None or Some(scene id).
\* The result is [ok, action, log, seen].  a is the mapped address.
mapAction_mapped(action, a) ==
  IF ~a.ok
  THEN [ok |-> FALSE, action |-> action, log |-> a.log, seen |-> a.seen]
  ELSE IF a.ctype = S_groups /\ IsSome(action.body.scene)
  THEN IF The(action.body.scene) \in DOMAIN map_scene
       THEN [ok |-> TRUE,
             action |-> [address |-> a.address,
                         body |-> [scene |-> Some(map_scene[The(action.body.scene)])]],
             log |-> a.log, seen |-> a.seen \cup {"scenes"}]
       ELSE [ok |-> FALSE, action |-> action,
             log |-> a.log \o <<NonExisting(S_scenes, The(action.body.scene))>>,
             seen |-> a.seen \cup {"scenes"}]
  ELSE [ok |-> TRUE,
        action |-> [address |-> a.address, body |-> action.body],
        log |-> a.log, seen |-> a.seen]

mapAction(action, with_api) ==
  mapAction_mapped(action, mapAddress(action.address, with_api))

(***************************************************************************)
(* __restoreSchedules (lines 462-506).  Of a schedule, the model keeps     *)
(* name, command and recycle; description, status, localtime and           *)
(* autodelete are copied unchanged into the body and are left out.         *)
(***************************************************************************)
\* lines 466-473
restoreSchedules_enter ==
  Result(NameIdxLog(current.schedules, Len(current.schedules),
                    "duplicate schedule name"),
         <<>>, FALSE, Attrs, {})

\* lines 475-505: the loop body for the schedule data of the snapshot; s is
\* the bridge's collection, nameidx its index, dup the error for a name seen
\* before in the loop, command the mapped command
restoreSchedules_mapped(s, nameidx, data, dup, command) ==
  IF ~command.ok
  THEN Result(dup \o command.log \o
              <<Warn("not importing schedule referencing non-existing item",
                     <<data.name>>)>>,
              <<>>, FALSE, Attrs, command.seen)
  ELSE IF data.name \in DOMAIN nameidx
  THEN IF Find(s, nameidx[data.name]).recycle # data.recycle
       \* "..." + data["recycle"] raises TypeError
       THEN Result(dup \o command.log, <<>>, TRUE, Attrs, command.seen)
       ELSE Result(dup \o command.log,
                   <<Req("PUT", "schedules", Some(nameidx[data.name]),
                         [name |-> data.name, command |-> command.action])>>,
                   FALSE,
                   [Attrs EXCEPT
                      !.map_schedule =
                         MapPut(map_schedule, data.id, nameidx[data.name])],
                   command.seen)
  ELSE Result(dup \o command.log,
              <<Req("POST", "schedules", None,
                    [name |-> data.name, command |-> command.action,
                     recycle |-> data.recycle])>>,
              FALSE,
              [Attrs EXCEPT
                 !.map_schedule = MapPut(map_schedule, data.id, HubNewId(hub))],
              command.seen)

restoreSchedules_body(n) ==
  restoreSchedules_mapped(
    current.schedules, NameIdx(current.schedules), target.schedules[n],
    DupTargetLog(SubSeq(target.schedules, 1, n - 1), target.schedules[n],
                 "duplicate schedule name at index and"),
    mapAction(target.schedules[n].command, TRUE))

(***************************************************************************)
(* __restoreRules (lines 508-572).  A condition is its address.            *)
(***************************************************************************)
Deleted(data) == data.status = "resourcedeleted"
Live(coll) == SelectSeq(coll, LAMBDA e : ~Deleted(e))

\* lines 512-521
restoreRules_enter ==
  Result(NameIdxLog(Live(current.rules), Len(Live(current.rules)),
                    "duplicate rule name"),
         <<>>, FALSE, Attrs, {})

\* lines 534-542: the conditions up to the first one that does not map
MapConditions_step(prev, m) ==
  IF ~prev.ok THEN prev
  ELSE [ok |-> m.ok,
        items |-> IF m.ok THEN Append(prev.items, m.address) ELSE prev.items,
        log |-> prev.log \o m.log,
        seen |-> prev.seen \cup m.seen]

RECURSIVE MapConditions(_, _)
MapConditions(cs, n) ==
  IF n = 0 THEN [ok |-> TRUE, items |-> <<>>, log |-> <<>>, seen |-> {}]
  ELSE MapConditions_step(MapConditions(cs, n - 1), mapAddress(cs[n], FALSE))

\* an action that does not map is left out and the rest is kept
MapActions_step_skipping(prev, m) ==
  [ok |-> prev.ok,
   items |-> IF m.ok THEN Append(prev.items, m.action) ELSE prev.items,
   log |-> prev.log \o m.log,
   seen |-> prev.seen \cup m.seen]

\* lines 545-552: the actions up to the first one that does not map
MapActions_step(prev, m) ==
  IF ~prev.ok THEN prev
  ELSE [ok |-> m.ok,
        items |-> IF m.ok THEN Append(prev.items, m.action) ELSE prev.items,
        log |-> prev.log \o m.log,
        seen |-> prev.seen \cup m.seen]

RECURSIVE MapActions(_, _)
MapActions(as, n) ==
  IF n = 0 THEN [ok |-> TRUE, items |-> <<>>, log |-> <<>>, seen |-> {}]
  ELSE MapActions_step(MapActions(as, n - 1), mapAction(as[n], FALSE))

\* a rule of the snapshot that is deleted is deleted on the bridge
restoreRules_mapped_deleting(s, nameidx, data, dup, conds, acts) ==
  IF Deleted(data)
  THEN IF data.name \in DOMAIN nameidx
       THEN Result(<<>>,
                   <<Req("DELETE", "rules", Some(nameidx[data.name]), None)>>,
                   FALSE, Attrs, {})
       ELSE Result(<<>>, <<>>, FALSE, Attrs, {})
  ELSE IF ~conds.ok
  THEN Result(dup \o conds.log, <<>>, FALSE, Attrs, conds.seen)
  ELSE IF ~acts.ok
  THEN Result(dup \o conds.log \o acts.log, <<>>, FALSE, Attrs,
              conds.seen \cup acts.seen)
  ELSE IF data.name \in DOMAIN nameidx
  THEN IF Find(s, nameidx[data.name]).recycle # data.recycle
       \* "..." + data["recycle"] raises TypeError
       THEN Result(dup \o conds.log \o acts.log, <<>>, TRUE, Attrs,
                   conds.seen \cup acts.seen)
       ELSE Result(dup \o conds.log \o acts.log,
                   <<Req("PUT", "rules", Some(nameidx[data.name]),
                         [name |-> data.name, status |-> data.status,
                          conditions |-> conds.items, actions |-> acts.items])>>,
                   FALSE,
                   [Attrs EXCEPT
                      !.map_rule = MapPut(map_rule, data.id, nameidx[data.name])],
                   conds.seen \cup acts.seen)
  ELSE Result(dup \o conds.log \o acts.log,
              <<Req("POST", "rules", None,
                    [name |-> data.name, status |-> data.status,
                     conditions |-> conds.items, actions |-> acts.items,
                     recycle |-> data.recycle])>>,
              FALSE,
              [Attrs EXCEPT
                 !.map_rule = MapPut(map_rule, data.id, HubNewId(hub))],
              conds.seen \cup acts.seen)

\* lines 523-571: the loop body for the rule data of the snapshot; conds and
\* acts are its mapped conditions and actions
restoreRules_mapped(s, nameidx, data, dup, conds, acts) ==
  IF Deleted(data) THEN Result(<<>>, <<>>, FALSE, Attrs, {})
  ELSE IF ~conds.ok
  THEN Result(dup \o conds.log, <<>>, FALSE, Attrs, conds.seen)
  ELSE IF ~acts.ok
  THEN Result(dup \o conds.log \o acts.log, <<>>, FALSE, Attrs,
              conds.seen \cup acts.seen)
  ELSE IF data.name \in DOMAIN nameidx
  THEN IF Find(s, nameidx[data.name]).recycle # data.recycle
       \* "..." + data["recycle"] raises TypeError
       THEN Result(dup \o conds.log \o acts.log, <<>>, TRUE, Attrs,
                   conds.seen \cup acts.seen)
       ELSE Result(dup \o conds.log \o acts.log,
                   <<Req("PUT", "rules", Some(nameidx[data.name]),
                         [name |-> data.name, status |-> data.status,
                          conditions |-> conds.items, actions |-> acts.items])>>,
                   FALSE,
                   [Attrs EXCEPT
                      !.map_rule = MapPut(map_rule, data.id, nameidx[data.name])],
                   conds.seen \cup acts.seen)
  ELSE Result(dup \o conds.log \o acts.log,
              <<Req("POST", "rules", None,
                    [name |-> data.name, status |-> data.status,
                     conditions |-> conds.items, actions |-> acts.items,
                     recycle |-> data.recycle])>>,
              FALSE,
              [Attrs EXCEPT
                 !.map_rule = MapPut(map_rule, data.id, HubNewId(hub))],
              conds.seen \cup acts.seen)

restoreRules_body(n) ==
  restoreRules_mapped(
    current.rules, NameIdx(Live(current.rules)), target.rules[n],
    DupTargetLog(Live(SubSeq(target.rules, 1, n - 1)), target.rules[n],
                 "duplicate rule name at index and"),
    MapConditions(target.rules[n].conditions, Len(target.rules[n].conditions)),
    MapActions(target.rules[n].actions, Len(target.rules[n].actions)))

(***************************************************************************)
(* __restoreResourceLinks (lines 574-634).  description and classid are    *)
(* copied unchanged into the body and are left out.                        *)
(***************************************************************************)
\* lines 578-585
restoreResourceLinks_enter ==
  Result(NameIdxLog(current.resourcelinks, Len(current.resourcelinks),
                    "duplicate resource link name"),
         <<>>, FALSE, Attrs, {})

\* a member address that does not map is written as it is
MapLinks_step_raw(prev, l, m) ==
  [links |-> Append(prev.links, IF m.ok THEN m.address ELSE l),
   missing_links |-> IF m.ok THEN prev.missing_links
                     ELSE Append(prev.missing_links, l),
   makes_sense |-> prev.makes_sense \/ (m.ok /\ m.ctype = S_rules),
   log |-> prev.log \o m.log,
   seen |-> prev.seen \cup m.seen]

\* lines 596-603: every member address is tried
MapLinks_step(prev, l, m) ==
  [links |-> IF m.ok THEN Append(prev.links, m.address) ELSE prev.links,
   missing_links |-> IF m.ok THEN prev.missing_links
                     ELSE Append(prev.missing_links, l),
   makes_sense |-> prev.makes_sense \/ (m.ok /\ m.ctype = S_rules),
   log |-> prev.log \o m.log,
   seen |-> prev.seen \cup m.seen]

RECURSIVE MapLinks(_, _)
MapLinks(ls, n) ==
  IF n = 0
  THEN [links |-> <<>>, missing_links |-> <<>>, makes_sense |-> FALSE,
        log |-> <<>>, seen |-> {}]
  ELSE MapLinks_step(MapLinks(ls, n - 1), ls[n], mapAddress(ls[n], FALSE))

\* a link of the bridge with the name of a link without rules is kept
restoreResourceLinks_mapped_keeping(s, nameidx, data, dup, ml) ==
  IF Len(ml.links) = 0
  THEN Result(dup \o ml.log \o
              <<Warn("not importing resource link with no links", <<data.name>>)>>,
              <<>>, FALSE, Attrs, ml.seen)
  ELSE IF ~ml.makes_sense
  THEN Result(dup \o ml.log \o
              <<Warn("not importing resource link without any rules",
                     <<data.name>>)>>,
              <<>>, FALSE, Attrs, ml.seen)
  ELSE IF data.name \in DOMAIN nameidx
  THEN IF Find(s, nameidx[data.name]).recycle # data.recycle
       \* "..." + data["recycle"] raises TypeError
       THEN Result(dup \o ml.log \o ml.warn, <<>>, TRUE, Attrs, ml.seen)
       ELSE Result(dup \o ml.log \o ml.warn,
                   <<Req("PUT", "resourcelinks", Some(nameidx[data.name]),
                         [name |-> data.name, links |-> ml.links])>>,
                   FALSE,
                   [Attrs EXCEPT
                      !.map_resource_links =
                         MapPut(map_resource_links, data.id, nameidx[data.name])],
                   ml.seen)
  ELSE Result(dup \o ml.log \o ml.warn,
              <<Req("POST", "resourcelinks", None,
                    [name |-> data.name, links |-> ml.links,
                     recycle |-> data.recycle])>>,
              FALSE,
              [Attrs EXCEPT
                 !.map_resource_links =
                    MapPut(map_resource_links, data.id, HubNewId(hub))],
              ml.seen)

\* lines 587-633: the loop body for the resource link data of the snapshot;
\* ml is the outcome of mapping its member addresses
restoreResourceLinks_mapped(s, nameidx, data, dup, ml) ==
  IF Len(ml.links) = 0
  THEN Result(dup \o ml.log \o
              <<Warn("not importing resource link with no links", <<data.name>>)>>,
              <<>>, FALSE, Attrs, ml.seen)
  ELSE IF ~ml.makes_sense
  THEN IF data.name \in DOMAIN nameidx
       THEN Result(dup \o ml.log,
                   <<Req("DELETE", "resourcelinks", Some(nameidx[data.name]),
                         None)>>,
                   FALSE, Attrs, ml.seen)
       ELSE Result(dup \o ml.log \o
                   <<Warn("not importing resource link without any rules",
                          <<data.name>>)>>,
                   <<>>, FALSE, Attrs, ml.seen)
  ELSE IF data.name \in DOMAIN nameidx
  THEN IF Find(s, nameidx[data.name]).recycle # data.recycle
       \* "..." + data["recycle"] raises TypeError
       THEN Result(dup \o ml.log \o ml.warn, <<>>, TRUE, Attrs, ml.seen)
       ELSE Result(dup \o ml.log \o ml.warn,
                   <<Req("PUT", "resourcelinks", Some(nameidx[data.name]),
                         [name |-> data.name, links |-> ml.links])>>,
                   FALSE,
                   [Attrs EXCEPT
                      !.map_resource_links =
                         MapPut(map_resource_links, data.id, nameidx[data.name])],
                   ml.seen)
  ELSE Result(dup \o ml.log \o ml.warn,
              <<Req("POST", "resourcelinks", None,
                    [name |-> data.name, links |-> ml.links,
                     recycle |-> data.recycle])>>,
              FALSE,
              [Attrs EXCEPT
                 !.map_resource_links =
                    MapPut(map_resource_links, data.id, HubNewId(hub))],
              ml.seen)

\* lines 615-616: the warning for the member addresses left out
WithMissingWarning(name, ml) ==
  [links |-> ml.links, makes_sense |-> ml.makes_sense, log |-> ml.log,
   seen |-> ml.seen,
   warn |-> IF Len(ml.missing_links) > 0
            THEN <<Warn("resource link is missing linked resources",
                        <<name>> \o ml.missing_links)>>
            ELSE <<>>]

restoreResourceLinks_body(n) ==
  restoreResourceLinks_mapped(
    current.resourcelinks, NameIdx(current.resourcelinks),
    target.resourcelinks[n],
    DupTargetLog(SubSeq(target.resourcelinks, 1, n - 1), target.resourcelinks[n],
                 "duplicate resource link name at index and"),
    WithMissingWarning(target.resourcelinks[n].name,
      MapLinks(target.resourcelinks[n].links, Len(target.resourcelinks[n].links))))

(***************************************************************************)
(* __isRelevantAddress (lines 636-650) and __cleanupResourceLinks (lines   *)
(* 652-691).  The resource link, its rules and its schedules are read from *)
(* the bridge.                                                             *)
(***************************************************************************)
\* every group counts, the group 0 of all lights too
isRelevantAddress_anyGroup(address, with_api) ==
  LET match == IF with_api THEN MATCH_SCHEDULE_ADDRESS(address)
               ELSE MATCH_RULE_ADDRESS(address)
  IN IF ~match.ok
     THEN [raised |-> TRUE, relevant |-> FALSE,
           log |-> <<Err("unknown schedule/rule address", <<address>>)>>]
     ELSE [raised |-> FALSE,
           relevant |-> match.g2 = S_lights \/ match.g2 = S_groups,
           log |-> <<>>]

\* raised: match is None and match.group raises AttributeError
isRelevantAddress(address, with_api) ==
  LET match == IF with_api THEN MATCH_SCHEDULE_ADDRESS(address)
               ELSE MATCH_RULE_ADDRESS(address)
  IN IF ~match.ok
     THEN [raised |-> TRUE, relevant |-> FALSE,
           log |-> <<Err("unknown schedule/rule address", <<address>>)>>]
     ELSE [raised |-> FALSE,
           relevant |-> \/ match.g2 = S_lights
                        \/ match.g2 = S_groups /\ match.g3 # <<"0">>,
           log |-> <<>>]

\* lines 673-678: the actions up to the first relevant one
RECURSIVE ScanActions(_, _)
ScanActions(as, n) ==
  IF n = 0 THEN [raised |-> FALSE, relevant |-> FALSE, log |-> <<>>]
  ELSE LET prev == ScanActions(as, n - 1)
           r    == isRelevantAddress(as[n].address, FALSE)
       IN IF prev.relevant \/ prev.raised THEN prev
          ELSE [raised |-> r.raised, relevant |-> r.relevant,
                log |-> prev.log \o r.log]

Times(n, x) == [i \in 1..n |-> x]

\* lines 662-688 over the first n member addresses.  halted: the method
\* does not get past the last request (the resource is gone) or raised.
RECURSIVE ScanLinks(_, _, _)
ScanLinks(links, n, name) ==
  IF n = 0
  THEN [relevant |-> FALSE, halted |-> FALSE, crash |-> FALSE,
        reqs |-> <<>>, log |-> <<>>, pos |-> <<>>]
  ELSE LET prev  == ScanLinks(links, n - 1, name)
           l     == links[n]
           match == MATCH_RESOURCE_LINK(l)
           rtype == match.g1
           rkey  == match.g2
           sent  == 1 + Len(prev.reqs)
           get(ty) == Req("GET", ty, Some(rkey), None)
           gone(ty) == [prev EXCEPT !.reqs = Append(prev.reqs, get(ty)),
                                    !.halted = TRUE]
           judged(ty, r) ==
             [relevant |-> r.relevant, halted |-> r.raised, crash |-> r.raised,
              reqs |-> Append(prev.reqs, get(ty)),
              log |-> prev.log \o r.log,
              pos |-> prev.pos \o Times(Len(r.log), sent + 1)]
       IN IF prev.relevant \/ prev.halted THEN prev
          ELSE IF ~match.ok
          THEN [prev EXCEPT
                  !.log = Append(prev.log,
                            Warn("Resource link doesn't conform to link format for",
                                 <<l, name>>)),
                  !.pos = Append(prev.pos, sent)]
          ELSE IF rtype = S_rules
          THEN IF ~HubHas(hub, "rules", rkey) THEN gone("rules")
               ELSE LET rule == Find(hub.res.rules, rkey)
                    IN judged("rules", ScanActions(rule.actions, Len(rule.actions)))
          ELSE IF rtype = S_schedules
          THEN IF ~HubHas(hub, "schedules", rkey) THEN gone("schedules")
               ELSE judged("schedules",
                      isRelevantAddress(
                        Find(hub.res.schedules, rkey).command.address, TRUE))
          ELSE prev

\* lines 654-691: the loop body for the n-th resource link of the snapshot
cleanupResourceLinks_body(n) ==
  LET data == target.resourcelinks[n]
      key  == map_resource_links[data.id]
      get  == Req("GET", "resourcelinks", Some(key), None)
      link == Find(hub.res.resourcelinks, key)
      sc   == ScanLinks(link.links, Len(link.links), link.name)
  IN IF data.id \notin DOMAIN map_resource_links
     THEN Result(<<>>, <<>>, FALSE, Attrs, {})
     ELSE IF ~HubHas(hub, "resourcelinks", key)
     THEN Result(<<>>, <<get>>, FALSE, Attrs, {})
     ELSE [log |-> sc.log, pos |-> sc.pos,
           reqs |-> <<get>> \o sc.reqs \o
                    (IF ~sc.relevant /\ ~sc.halted
                     THEN <<Req("DELETE", "resourcelinks", Some(key), None)>>
                     ELSE <<>>),
           crash |-> sc.crash, new |-> Attrs, seen |-> {}]

(***************************************************************************)
(* The transitions.                                                        *)
(***************************************************************************)
\* GET of the whole configuration: the scenes come without their lightstates
Listing(res) ==
  [res EXCEPT !.scenes = [i \in 1..Len(res.scenes) |->
                            [res.scenes[i] EXCEPT !.lightstates = None]]]

\* HueBackup.__init__ (lines 20-26) with __refresh and __get (lines 80-92)
Construct ==
  /\ pc = "new"
  /\ \E ok \in BOOLEAN :
       /\ calls' = Append(calls, [req |-> Req("GET", "", None, None), ok |-> ok])
       /\ IF ok
          THEN /\ current' = Listing(hub.res)
               /\ pc' = "main"
               /\ abort' = abort
          ELSE /\ current' = current
               /\ pc' = "dead"
               /\ abort' = "request"
  /\ updates' = <<>>
  /\ errors' = <<>>
  /\ history' = Append(history, "fetch")
  /\ UNCHANGED <<stage, idx, args, file, probe, written, hub, target, maps, out,
                 lookups>>

\* hue_br.py lines 14-18 when neither --backup nor --restore is given
Usage ==
  /\ pc = "main"
  /\ ~args.backup /\ ~args.restore
  /\ pc' = "dead"
  /\ abort' = "usage"
  /\ UNCHANGED <<stage, idx, args, file, probe, written, hub, current, target, maps,
                 updates, errors, out, calls, lookups, history>>

\* backup(), lines 32-36
backup_fixNames ==
  /\ pc = "main"
  /\ args.backup
  /\ current' =
       [current EXCEPT
          !.groups = fixNames(S_groups, current.groups).tree,
          !.rules = fixNames(S_rules, current.rules).tree,
          !.schedules = fixNames(S_schedules, current.schedules).tree,
          !.resourcelinks = fixNames(S_resourcelinks, current.resourcelinks).tree]
  /\ out' = out \o fixNames(S_groups, current.groups).log
                \o fixNames(S_rules, current.rules).log
                \o fixNames(S_schedules, current.schedules).log
                \o fixNames(S_resourcelinks, current.resourcelinks).log
  /\ pc' = "backup"
  /\ stage' = "loop"
  /\ idx' = 0
  /\ UNCHANGED <<args, file, probe, written, hub, target, maps, updates, errors, calls,
                 lookups, history, abort>>

\* backup(), lines 39-41: the lightstates of one scene are read
backup_scene_each ==
  /\ pc = "backup"
  /\ idx < Len(current.scenes)
  /\ \E ok \in BOOLEAN :
       /\ ok => HubHas(hub, "scenes", current.scenes[idx + 1].id)
       /\ calls' = Append(calls,
                     [req |-> Req("GET", "scenes",
                                  Some(current.scenes[idx + 1].id), None),
                      ok |-> ok])
       /\ IF ok
          THEN /\ current' =
                    [current EXCEPT
                       !.scenes[idx + 1].lightstates =
                          Find(hub.res.scenes,
                               current.scenes[idx + 1].id).lightstates]
               /\ idx' = idx + 1
               /\ pc' = pc
               /\ abort' = abort
          ELSE /\ current' = current
               /\ idx' = idx
               /\ pc' = "dead"
               /\ abort' = "request"
  /\ UNCHANGED <<stage, args, file, probe, written, hub, target, maps, updates, errors,
                 out, lookups, history>>

\* backup(), lines 43-45, and the return to hue_br.py line 16
backup_save ==
  /\ pc = "backup"
  /\ idx = Len(current.scenes)
  /\ written' = Some(current)
  /\ pc' = IF args.restore THEN "backed" ELSE "exit"
  /\ UNCHANGED <<stage, idx, args, file, probe, hub, current, target, maps, updates,
                 errors, out, calls, lookups, history, abort>>

\* restore(), lines 98-108: load the snapshot, create the identity maps
restore ==
  /\ pc = (IF args.backup THEN "backed" ELSE "main")
  /\ args.restore
  /\ target' = file
  /\ map_light' = EmptyMap
  /\ map_sensor' = MapPut(EmptyMap, <<"1">>, <<"1">>)
  /\ map_group' = MapPut(EmptyMap, <<"0">>, <<"0">>)
  /\ map_scene' = EmptyMap
  /\ map_schedule' = EmptyMap
  /\ map_rule' = EmptyMap
  /\ map_resource_links' = EmptyMap
  /\ pc' = PhaseAfter("fetch")
  /\ stage' = "enter"
  /\ idx' = 0
  /\ history' = Append(history, PhaseAfter("fetch"))
  /\ UNCHANGED <<args, file, probe, written, hub, current, updates, errors, out,
                 calls, lookups, abort>>

\* the number of iterations of the loop of phase p
LoopLen(p) ==
  CASE p = "lights" -> Len(restoreLights_tm)
    [] p = "sensors" -> Len(restoreSensors_tm)
    [] p \in {"flush_lights", "flush_sensors"} -> Len(updates)
    [] p = "groups" -> Len(target.groups)
    [] p = "scenes" -> Len(restoreScenes_tm.m)
    [] p = "schedules" -> Len(target.schedules)
    [] p = "rules" -> Len(target.rules)
    [] p \in {"resourcelinks", "cleanup"} -> Len(target.resourcelinks)
    [] OTHER -> 0

Enter(p, r) == pc = p /\ stage = "enter" /\ Step(r, "loop", 0)
InLoop(p) == pc = p /\ stage = "loop" /\ idx < LoopLen(p)

restoreLights_begin == Enter("lights", restoreLights_enter)
restoreLights_each ==
  /\ InLoop("lights")
  /\ Step(restoreLights_body(restoreLights_tm[idx + 1].k,
                             restoreLights_tm[idx + 1].v), "loop", idx + 1)

\* __run_updates (lines 707-713): one queued PUT
run_updates_each ==
  /\ pc \in {"flush_lights", "flush_sensors"}
  /\ InLoop(pc)
  /\ Step(Result(<<>>, <<updates[idx + 1]>>, FALSE, Attrs, {}), "loop", idx + 1)

restoreSensors_begin == Enter("sensors", restoreSensors_enter)
restoreSensors_each ==
  /\ InLoop("sensors")
  /\ Step(restoreSensors_body(restoreSensors_tm[idx + 1].k,
                              restoreSensors_tm[idx + 1].v), "loop", idx + 1)

restoreGroups_begin == Enter("groups", restoreGroups_enter)
restoreGroups_each ==
  InLoop("groups") /\ Step(restoreGroups_body(idx + 1), "loop", idx + 1)

restoreScenes_begin == Enter("scenes", restoreScenes_enter)

\* the loop over tm with an entry in the scene map for every scene of it
restoreScenes_each_mapping ==
  /\ InLoop("scenes")
  /\ Step([restoreScenes_body(restoreScenes_tm.m[idx + 1].k,
                              restoreScenes_tm.m[idx + 1].v)
             EXCEPT !.new.map_scene =
                      IF restoreScenes_tm.m[idx + 1].v \in DOMAIN @ THEN @
                      ELSE MapPut(@, restoreScenes_tm.m[idx + 1].v,
                                  restoreScenes_tm.m[idx + 1].v)],
          "loop", idx + 1)

restoreScenes_each ==
  /\ InLoop("scenes")
  /\ Step(restoreScenes_body(restoreScenes_tm.m[idx + 1].k,
                             restoreScenes_tm.m[idx + 1].v), "loop", idx + 1)

restoreSchedules_begin == Enter("schedules", restoreSchedules_enter)
restoreSchedules_each ==
  InLoop("schedules") /\ Step(restoreSchedules_body(idx + 1), "loop", idx + 1)

restoreRules_begin == Enter("rules", restoreRules_enter)
restoreRules_each ==
  InLoop("rules") /\ Step(restoreRules_body(idx + 1), "loop", idx + 1)

restoreResourceLinks_begin == Enter("resourcelinks", restoreResourceLinks_enter)
restoreResourceLinks_each ==
  /\ InLoop("resourcelinks")
  /\ Step(restoreResourceLinks_body(idx + 1), "loop", idx + 1)

cleanupResourceLinks_each ==
  InLoop("cleanup") /\ Step(cleanupResourceLinks_body(idx + 1), "loop", idx + 1)

RestorePhases ==
  {"lights", "flush_lights", "sensors", "flush_sensors", "groups", "scenes",
   "schedules", "rules", "resourcelinks", "cleanup"}

\* the next statement with the queue of __run_updates left as it is
restore_next_keeping ==
  /\ pc \in RestorePhases
  /\ stage = "loop"
  /\ idx = LoopLen(pc)
  /\ pc' = PhaseAfter(pc)
  /\ stage' = IF HasEnter(PhaseAfter(pc)) THEN "enter" ELSE "loop"
  /\ idx' = 0
  /\ history' = Append(history, PhaseAfter(pc))
  /\ UNCHANGED <<args, file, probe, written, hub, current, target, maps, errors, out,
                 calls, lookups, abort, updates>>

\* restore(), lines 110-127: a method returns and the next statement runs;
\* __run_updates empties the queue when its loop is over (line 713)
restore_next ==
  /\ pc \in RestorePhases
  /\ stage = "loop"
  /\ idx = LoopLen(pc)
  /\ pc' = PhaseAfter(pc)
  /\ stage' = IF HasEnter(PhaseAfter(pc)) THEN "enter" ELSE "loop"
  /\ idx' = 0
  /\ history' = Append(history, PhaseAfter(pc))
  /\ updates' = IF pc \in {"flush_lights", "flush_sensors"} THEN <<>> ELSE updates
  /\ UNCHANGED <<args, file, probe, written, hub, current, target, maps, errors, out,
                 calls, lookups, abort>>

\* restore(), lines 129-132
report ==
  /\ pc = "report"
  /\ out' = out \o (IF Len(errors) > 0
                    THEN <<[lvl |-> "REPORT", msg |-> "ERRORS FOUND:", arg |-> <<>>]>>
                         \o [i \in 1..Len(errors) |->
                               [errors[i] EXCEPT !.lvl = "REPORT"]]
                    ELSE <<>>)
  /\ pc' = "exit"
  /\ UNCHANGED <<stage, idx, args, file, probe, written, hub, current, target, maps,
                 updates, errors, calls, lookups, history, abort>>

(***************************************************************************)
(* Inputs: the resources of the bridge and of the snapshot.                *)
(***************************************************************************)
Light(id, uniqueid, name) == [id |-> id, uniqueid |-> uniqueid, name |-> name]
Sensor(id, uniqueid, name, type) ==
  [id |-> id, uniqueid |-> uniqueid, name |-> name, type |-> type,
   config |-> {"on", "battery"}, recycle |-> FALSE]
Group(id, name, lights, sensors, type) ==
  [id |-> id, name |-> name, lights |-> lights, sensors |-> sensors,
   type |-> type, class |-> None]
Scene(id, name, type, group, lights, lightstates, appdata) ==
  [id |-> id, name |-> name, type |-> type, group |-> group, lights |-> lights,
   lightstates |-> lightstates, recycle |-> FALSE, appdata |-> appdata]
Action(address, scene) == [address |-> address, body |-> [scene |-> scene]]
Schedule(id, name, command) ==
  [id |-> id, name |-> name, command |-> command, recycle |-> FALSE]
Rule(id, name, conditions, actions) ==
  [id |-> id, name |-> name, status |-> "enabled", conditions |-> conditions,
   actions |-> actions, recycle |-> FALSE]
Link(id, name, links) ==
  [id |-> id, name |-> name, links |-> links, recycle |-> FALSE]

Id(n) == StrOfNat(n)
Addr(ctype, id, suffix) == S_slash \o ctype \o S_slash \o id \o suffix
ApiAddr(key, ctype, id, suffix) == S_api \o key \o Addr(ctype, id, suffix)
S_action == <<"/","a","c","t","i","o","n">>
S_state == <<"/","s","t","a","t","e">>
S_localtime == <<"l","o","c","a","l","t","i","m","e">>
S_capabilities == <<"c","a","p","a","b","i","l","i","t","i","e","s">>

\* the bridge restored into: two lights, the Daylight sensor and a switch,
\* a room with a scene, a schedule, a rule and a resource link
BaseBridge ==
  [lights |-> <<Light(Id(1), Some(<<"u","1">>), <<"A">>),
                Light(Id(2), Some(<<"u","2">>), <<"B">>)>>,
   sensors |-> <<Sensor(Id(1), None, S_Daylight, "Daylight"),
                 Sensor(Id(2), Some(<<"s","2">>), <<"S","w">>, "ZLLSwitch")>>,
   groups |-> <<Group(Id(1), <<"G">>, <<Id(1)>>, <<>>, "Room")>>,
   scenes |-> <<Scene(<<"x","1">>, <<"E","v">>, "GroupScene", Some(Id(1)),
                      Some(<<Id(1)>>), Some(<<Id(1)>>), Some(<<"d","1">>))>>,
   schedules |-> <<Schedule(Id(1), <<"T">>,
                     Action(ApiAddr(apiKey, S_groups, Id(1), S_action), None))>>,
   rules |-> <<Rule(Id(1), <<"R">>, <<Addr(S_sensors, Id(2), S_state)>>,
                    <<Action(Addr(S_groups, Id(1), S_action), None)>>)>>,
   resourcelinks |-> <<Link(Id(1), <<"R","L">>, <<Addr(S_rules, Id(1), <<>>)>>)>>]

\* a bridge with its lights and sensors paired and nothing configured
FreshBridge ==
  [BaseBridge EXCEPT !.groups = <<>>, !.scenes = <<>>, !.schedules = <<>>,
                     !.rules = <<>>, !.resourcelinks = <<>>]

\* the snapshot: taken from another bridge, whose key was O
oldKey == <<"O">>

\* light 3 is light 1 of the bridge under another name, light 4 is not paired
SnapLights ==
  <<Light(Id(3), Some(<<"u","1">>), <<"A","2">>),
    Light(Id(4), Some(<<"u","9">>), <<"N">>)>>

\* sensor 5 is sensor 2 of the bridge, sensor 6 is a virtual one
SnapSensors ==
  <<Sensor(Id(1), None, S_Daylight, "Daylight"),
    Sensor(Id(5), Some(<<"s","2">>), <<"S","w","2">>, "ZLLSwitch"),
    Sensor(Id(6), Some(<<"c","1">>), <<"F">>, "CLIPGenericFlag")>>

\* G exists on the bridge, H is new and misses light 4, Z has no light left
SnapGroups ==
  <<Group(Id(1), <<"G">>, <<Id(3)>>, <<>>, "Room"),
    Group(Id(2), <<"H">>, <<Id(3), Id(4)>>, <<Id(5)>>, "Room"),
    Group(Id(3), <<"Z">>, <<Id(4)>>, <<>>, "Room")>>

SnapScenes ==
  <<Scene(<<"y","1">>, <<"E","v">>, "GroupScene", Some(Id(1)),
          Some(<<Id(3)>>), Some(<<Id(3)>>), Some(<<"d","1">>)),
    Scene(<<"y","2">>, <<"M","o">>, "GroupScene", Some(Id(2)),
          Some(<<Id(3), Id(4)>>), Some(<<Id(3), Id(4)>>), None)>>

SnapSchedules ==
  <<Schedule(Id(1), <<"T">>,
      Action(ApiAddr(oldKey, S_groups, Id(2), S_action), Some(<<"y","2">>)))>>

\* R2 acts on group 3, which is not restored
SnapRules ==
  <<Rule(Id(1), <<"R">>, <<Addr(S_sensors, Id(5), S_state)>>,
         <<Action(Addr(S_groups, Id(2), S_action), None)>>),
    Rule(Id(2), <<"R","2">>, <<Addr(S_sensors, Id(5), S_state)>>,
         <<Action(Addr(S_groups, Id(3), S_action), None)>>)>>

SnapLinks ==
  <<Link(Id(1), <<"R","L">>,
         <<Addr(S_rules, Id(1), <<>>), Addr(S_rules, Id(2), <<>>)>>)>>

BaseSnapshot ==
  [lights |-> SnapLights, sensors |-> SnapSensors, groups |-> SnapGroups,
   scenes |-> SnapScenes, schedules |-> SnapSchedules, rules |-> SnapRules,
   resourcelinks |-> SnapLinks]

\* other lights: a uniqueid twice; a light without uniqueid
LightVariants ==
  {<<Light(Id(3), Some(<<"u","1">>), <<"A","2">>),
     Light(Id(4), Some(<<"u","9">>), <<"N">>),
     Light(Id(5), Some(<<"u","1">>), <<"A">>)>>,
   <<Light(Id(3), Some(<<"u","1">>), <<"A","2">>),
     Light(Id(4), None, <<"N">>)>>}

\* other sensors: sensor 1 is a switch paired with the bridge; sensor 1 is a
\* device the bridge does not know; a sensor of another type and a device
\* the bridge does not know
SensorVariants ==
  {<<Sensor(Id(1), Some(<<"s","2">>), <<"S","w">>, "ZLLSwitch"),
     Sensor(Id(6), Some(<<"c","1">>), <<"F">>, "CLIPGenericFlag")>>,
   <<Sensor(Id(1), Some(<<"s","7">>), <<"P">>, "ZLLPresence"),
     Sensor(Id(5), Some(<<"s","2">>), <<"S","w">>, "ZLLSwitch")>>,
   <<Sensor(Id(1), None, S_Daylight, "Daylight"),
     Sensor(Id(5), Some(<<"s","2">>), <<"S","w">>, "ZLLPresence"),
     Sensor(Id(8), Some(<<"s","8">>), <<"P">>, "ZLLPresence"),
     Sensor(Id(9), Some(<<"c","2">>), <<"C">>, "CLIPGenericStatus")>>}

\* other groups: the snapshot lists group 0; a member that the snapshot does
\* not hold; a name twice; a group of another type
GroupVariants ==
  {<<Group(Id(0), <<"A","l","l">>, <<Id(3)>>, <<>>, "LightGroup"),
     Group(Id(1), <<"G">>, <<Id(3)>>, <<>>, "Room"),
     Group(Id(2), <<"H">>, <<Id(3), Id(4)>>, <<Id(5)>>, "Room")>>,
   <<Group(Id(1), <<"G">>, <<Id(3), Id(9)>>, <<>>, "Room"),
     Group(Id(2), <<"H">>, <<Id(3), Id(4)>>, <<Id(5)>>, "Room")>>,
   <<Group(Id(1), <<"G">>, <<Id(3)>>, <<>>, "Room"),
     Group(Id(2), <<"G">>, <<Id(3)>>, <<Id(5)>>, "Room")>>,
   <<[Group(Id(1), <<"G">>, <<Id(3)>>, <<>>, "Zone") EXCEPT
        !.class = Some("Office")],
     Group(Id(2), <<"H">>, <<Id(3), Id(4)>>, <<Id(5), Id(8)>>, "Room")>>}

\* other scenes: a type the code does not know; scenes of lights and a scene
\* without lightstates; a recycle flag other than the bridge's; a scene of a
\* group the snapshot does not hold; a scene of a group that is not restored
SceneVariants ==
  {<<Scene(<<"y","1">>, <<"E","v">>, "Other", Some(Id(1)),
           Some(<<Id(3)>>), Some(<<Id(3)>>), Some(<<"d","1">>))>>,
   <<Scene(<<"y","1">>, <<"E","v">>, "GroupScene", Some(Id(1)),
           Some(<<Id(3)>>), None, Some(<<"d","1">>)),
     Scene(<<"y","3">>, <<"L","i">>, "LightScene", None,
           Some(<<Id(3), Id(4)>>), Some(<<Id(3), Id(4)>>), None),
     Scene(<<"y","4">>, <<"L","o">>, "LightScene", None,
           Some(<<Id(4)>>), Some(<<Id(4)>>), Some(<<"d","4">>))>>,
   <<[Scene(<<"y","1">>, <<"E","v">>, "GroupScene", Some(Id(1)),
            Some(<<Id(3)>>), Some(<<Id(3)>>), Some(<<"d","1">>))
        EXCEPT !.recycle = TRUE]>>,
   <<Scene(<<"y","5">>, <<"A","b">>, "GroupScene", Some(Id(9)),
           Some(<<Id(3)>>), Some(<<Id(3)>>), None)>>,
   <<Scene(<<"y","6">>, <<"Z","e">>, "GroupScene", Some(Id(3)),
           Some(<<Id(4)>>), Some(<<Id(4)>>), None),
     Scene(<<"y","7">>, <<"E","v">>, "LightScene", None,
           Some(<<Id(3)>>), Some(<<Id(3)>>), Some(<<"1","%","E","v">>))>>}

\* other schedules: commands on a schedule and on a rule; commands that do
\* not map; a recycle flag other than the bridge's
ScheduleVariants ==
  {<<Schedule(Id(1), <<"T">>,
        Action(ApiAddr(oldKey, S_groups, Id(2), S_action), None)),
     Schedule(Id(2), <<"U">>,
        Action(ApiAddr(oldKey, S_schedules, Id(1), <<>>), None)),
     Schedule(Id(3), <<"V">>,
        Action(ApiAddr(oldKey, S_rules, Id(1), <<>>), None))>>,
   <<Schedule(Id(1), <<"T">>,
        Action(ApiAddr(oldKey, S_groups, Id(3), S_action), None)),
     Schedule(Id(2), <<"U">>,
        Action(ApiAddr(oldKey, S_groups, Id(2), S_action), Some(<<"z","z">>))),
     Schedule(Id(3), <<"V">>,
        Action(Addr(S_groups, Id(2), S_action), None)),
     Schedule(Id(4), <<"W">>,
        Action(ApiAddr(oldKey, S_capabilities, Id(1), <<>>), None)),
     Schedule(Id(5), <<"T">>,
        Action(ApiAddr(oldKey, S_lights, Id(3), S_state), None))>>,
   <<[Schedule(Id(1), <<"T">>,
        Action(ApiAddr(oldKey, S_groups, Id(2), S_action), None))
        EXCEPT !.recycle = TRUE]>>}

\* other rules: an action, a condition or a scene that does not map, after
\* ones that do; a deleted rule, a rule on a rule and on a schedule; a rule
\* on group 0 only; a recycle flag other than the bridge's
RuleVariants ==
  {<<Rule(Id(1), <<"R">>, <<Addr(S_sensors, Id(5), S_state)>>,
          <<Action(Addr(S_groups, Id(2), S_action), None),
            Action(Addr(S_groups, Id(3), S_action), None)>>),
     Rule(Id(2), <<"R","2">>,
          <<Addr(S_config, S_localtime, <<>>), Addr(S_sensors, Id(9), S_state)>>,
          <<Action(Addr(S_groups, Id(2), S_action), None)>>),
     Rule(Id(3), <<"R","3">>, <<Addr(S_config, S_localtime, <<>>)>>,
          <<Action(Addr(S_lights, Id(3), S_state), None),
            Action(Addr(S_groups, Id(2), S_action), Some(<<"z","z">>))>>),
     Rule(Id(4), <<"R","4">>, <<Addr(S_config, S_localtime, <<>>)>>,
          <<Action(Addr(S_lights, Id(3), S_state), Some(<<"z","z">>)),
            Action(Addr(S_groups, Id(2), S_action), Some(<<"y","2">>))>>)>>,
   <<[Rule(Id(1), <<"R">>, <<Addr(S_sensors, Id(9), S_state)>>, <<>>)
        EXCEPT !.status = "resourcedeleted"],
     Rule(Id(2), <<"R">>, <<Addr(S_sensors, Id(5), S_state)>>,
          <<Action(Addr(S_schedules, Id(1), <<>>), None)>>),
     Rule(Id(3), <<"R","3">>, <<Addr(S_sensors, Id(5), S_state)>>,
          <<Action(Addr(S_rules, Id(2), <<>>), None)>>)>>,
   <<Rule(Id(1), <<"R">>, <<Addr(S_sensors, Id(5), S_state)>>,
          <<Action(Addr(S_groups, Id(0), S_action), None)>>),
     Rule(Id(2), <<"R","2">>, <<Addr(S_sensors, Id(5), S_state)>>,
          <<Action(Addr(S_capabilities, Id(1), <<>>), None)>>)>>,
   <<[Rule(Id(1), <<"R">>, <<Addr(S_sensors, Id(5), S_state)>>,
           <<Action(Addr(S_groups, Id(2), S_action), None)>>)
        EXCEPT !.recycle = TRUE]>>}

\* other resource links: a name twice; links none of whose members maps or
\* is a rule, and a link all of whose members map; a link of a rule and a
\* schedule; a recycle flag other than the bridge's
LinkVariants ==
  {<<Link(Id(1), <<"R","L">>, <<Addr(S_rules, Id(1), <<>>)>>),
     Link(Id(2), <<"R","L">>, <<Addr(S_sensors, Id(5), <<>>)>>)>>,
   <<Link(Id(1), <<"R","L">>, <<Addr(S_rules, Id(2), <<>>)>>),
     Link(Id(2), <<"N","2">>, <<Addr(S_sensors, Id(5), <<>>)>>),
     Link(Id(3), <<"N","3">>,
          <<Addr(S_sensors, Id(5), <<>>), Addr(S_rules, Id(1), <<>>)>>),
     Link(Id(4), <<"N","4">>, <<Addr(S_groups, Id(1), <<>>)>>)>>,
   <<Link(Id(1), <<"R","L">>,
          <<Addr(S_groups, Id(3), <<>>), Addr(S_rules, Id(1), <<>>),
            Addr(S_schedules, Id(1), <<>>)>>),
     [Link(Id(2), <<"N","2">>, <<Addr(S_rules, Id(1), <<>>)>>)
        EXCEPT !.recycle = TRUE]>>,
   <<[Link(Id(1), <<"R","L">>, <<Addr(S_rules, Id(1), <<>>)>>)
        EXCEPT !.recycle = TRUE]>>}

\* the snapshots: the base one with one collection replaced
Snapshots ==
  {BaseSnapshot}
  \cup {[BaseSnapshot EXCEPT !.lights = v] : v \in LightVariants}
  \cup {[BaseSnapshot EXCEPT !.sensors = v] : v \in SensorVariants}
  \cup {[BaseSnapshot EXCEPT !.groups = v] : v \in GroupVariants}
  \cup {[BaseSnapshot EXCEPT !.scenes = v] : v \in SceneVariants}
  \cup {[BaseSnapshot EXCEPT !.schedules = v] : v \in ScheduleVariants}
  \cup {[BaseSnapshot EXCEPT !.rules = v] : v \in RuleVariants}
  \cup {[BaseSnapshot EXCEPT !.resourcelinks = v] : v \in LinkVariants}
  \cup {[BaseSnapshot EXCEPT !.rules = v, !.resourcelinks = w] :
          v \in RuleVariants, w \in LinkVariants}

\* a snapshot whose only group has another id than the same group of the
\* bridge: group 5 is group 1 of the bridge, and both scenes are scenes of it
RemappedSnapshot ==
  [BaseSnapshot EXCEPT
     !.groups = <<Group(Id(5), <<"G">>, <<Id(3)>>, <<>>, "Room")>>,
     !.scenes = <<Scene(<<"y","1">>, <<"E","v">>, "GroupScene", Some(Id(5)),
                        Some(<<Id(3)>>), Some(<<Id(3)>>), Some(<<"d","1">>)),
                  Scene(<<"y","2">>, <<"M","o">>, "GroupScene", Some(Id(5)),
                        Some(<<Id(3)>>), Some(<<Id(3)>>), None)>>]

\* a bridge with a light scene, and a snapshot with a group scene of the same
\* key "1%a!b"
MixedBridge ==
  [BaseBridge EXCEPT
     !.scenes = @ \o <<Scene(<<"x","2">>, <<"b">>, "LightScene", None,
                             Some(<<Id(1)>>), Some(<<Id(1)>>),
                             Some(<<"1","%","a">>))>>]

MixedSnapshot ==
  [BaseSnapshot EXCEPT
     !.scenes = <<Scene(<<"y","1">>, <<"a","!","b">>, "GroupScene", Some(Id(1)),
                        Some(<<Id(3)>>), Some(<<Id(3)>>), Some(<<"d","1">>))>>]

\* a snapshot with scenes without light states: Ev of group 1, which is
\* restored, and Ze of group 3, which is not; a schedule, a rule and a
\* resource link refer to Ev
NoStatesSnapshot ==
  [BaseSnapshot EXCEPT
     !.scenes = <<Scene(<<"y","1">>, <<"E","v">>, "GroupScene", Some(Id(1)),
                        Some(<<Id(3)>>), None, Some(<<"d","1">>)),
                  Scene(<<"y","2">>, <<"M","o">>, "GroupScene", Some(Id(2)),
                        Some(<<Id(3), Id(4)>>), Some(<<Id(3), Id(4)>>), None),
                  Scene(<<"y","6">>, <<"Z","e">>, "GroupScene", Some(Id(3)),
                        Some(<<Id(4)>>), None, None)>>,
     !.schedules = <<Schedule(Id(1), <<"T">>,
                       Action(ApiAddr(oldKey, S_groups, Id(2), S_action),
                              Some(<<"y","1">>)))>>,
     !.rules = <<Rule(Id(1), <<"R">>, <<Addr(S_sensors, Id(5), S_state)>>,
                      <<Action(Addr(S_groups, Id(2), S_action), Some(<<"y","2">>))>>),
                 Rule(Id(2), <<"R","2">>, <<Addr(S_sensors, Id(5), S_state)>>,
                      <<Action(Addr(S_groups, Id(2), S_action), Some(<<"y","1">>))>>)>>,
     !.resourcelinks = <<Link(Id(1), <<"R","L">>,
                              <<Addr(S_rules, Id(1), <<>>),
                                Addr(S_scenes, <<"y","1">>, <<>>)>>)>>]

\* a snapshot with a sensor the bridge does not know: the group G of the
\* bridge has no light left, the group H misses light 4 and sensor 8
MembersSnapshot ==
  [BaseSnapshot EXCEPT
     !.sensors = @ \o <<Sensor(Id(8), Some(<<"s","8">>), <<"P">>, "ZLLPresence")>>,
     !.groups = <<Group(Id(1), <<"G">>, <<Id(4)>>, <<>>, "Room"),
                  Group(Id(2), <<"H">>, <<Id(3), Id(4)>>, <<Id(5), Id(8)>>, "Room")>>]

\* the bridges that are backed up: the base bridge with up to MaxEntries
\* groups, their names drawn from short names and names around the longest
\* name __fixNames makes
MaxEntries == 3

Xs(n) == [i \in 1..n |-> "x"]

NamePool ==
  {<<"a">>, <<"a","2">>, Xs(MaxNameLen - 1), Xs(MaxNameLen), Xs(MaxNameLen + 1),
   <<"2">> \o Xs(MaxNameLen - 1)}

NamedGroups(names) ==
  [i \in 1..Len(names) |-> Group(Id(i), names[i], <<Id(1)>>, <<>>, "Room")]

BackupBridges ==
  {[BaseBridge EXCEPT !.groups = NamedGroups(names)] :
     names \in UNION {[1..k -> NamePool] : k \in 1..MaxEntries}}

\* the id the bridge gives the first resource created
FirstNewId == 7

Only(flag) == [backup |-> flag = "backup", restore |-> flag = "restore"]

Runs ==
  {[args |-> Only("restore"), file |-> f, bridge |-> b] :
     f \in Snapshots, b \in {BaseBridge}}
  \cup {[args |-> Only("restore"), file |-> BaseSnapshot, bridge |-> FreshBridge]}
  \cup {[args |-> Only("restore"), file |-> RemappedSnapshot, bridge |-> BaseBridge],
        [args |-> Only("restore"), file |-> NoStatesSnapshot, bridge |-> BaseBridge],
        [args |-> Only("restore"), file |-> MembersSnapshot, bridge |-> BaseBridge],
        [args |-> Only("restore"), file |-> MixedSnapshot, bridge |-> MixedBridge]}
  \cup {[args |-> Only("backup"), file |-> BaseSnapshot, bridge |-> b] :
          b \in BackupBridges}
  \cup {[args |-> a, file |-> BaseSnapshot, bridge |-> BaseBridge] :
          a \in {[backup |-> TRUE, restore |-> TRUE], Only("neither")}}

Init ==
  /\ pc = "new"
  /\ stage = "enter"
  /\ idx = 0
  /\ \E run \in Runs :
       /\ args = run.args
       /\ file = run.file
       /\ hub = [res |-> run.bridge, nextid |-> FirstNewId]
  /\ written = None
  /\ current = NoResources
  /\ target = NoResources
  /\ map_light = EmptyMap
  /\ map_sensor = EmptyMap
  /\ map_group = EmptyMap
  /\ map_scene = EmptyMap
  /\ map_schedule = EmptyMap
  /\ map_rule = EmptyMap
  /\ map_resource_links = EmptyMap
  /\ updates = <<>>
  /\ errors = <<>>
  /\ out = <<>>
  /\ calls = <<>>
  /\ lookups = {}
  /\ history = <<>>
  /\ abort = "none"
  /\ probe = NoProbe

Next ==
  \/ Construct
  \/ Usage
  \/ backup_fixNames
  \/ backup_scene_each
  \/ backup_save
  \/ restore
  \/ restoreLights_begin
  \/ restoreLights_each
  \/ run_updates_each
  \/ restoreSensors_begin
  \/ restoreSensors_each
  \/ restoreGroups_begin
  \/ restoreGroups_each
  \/ restoreScenes_begin
  \/ restoreScenes_each
  \/ restoreSchedules_begin
  \/ restoreSchedules_each
  \/ restoreRules_begin
  \/ restoreRules_each
  \/ restoreResourceLinks_begin
  \/ restoreResourceLinks_each
  \/ cleanupResourceLinks_each
  \/ restore_next
  \/ report

Spec == Init /\ [][Next]_vars

(***************************************************************************)
(* The functions by themselves: __mapAddress, __mapAction and __sceneKey   *)
(* applied to arguments of any form, with identity maps as a restore       *)
(* leaves them.                                                            *)
(***************************************************************************)
\* identity maps: the ones restore() starts with, and ones with entries
ProbeMaps ==
  {[map_light |-> EmptyMap, map_sensor |-> MapPut(EmptyMap, Id(1), Id(1)),
    map_group |-> MapPut(EmptyMap, Id(0), Id(0)), map_scene |-> EmptyMap,
    map_schedule |-> EmptyMap, map_rule |-> EmptyMap],
   [map_light |-> MapPut(MapPut(EmptyMap, Id(3), Id(1)), Id(12), Id(2)),
    map_sensor |-> MapPut(MapPut(EmptyMap, Id(1), Id(1)), Id(5), Id(2)),
    map_group |-> MapPut(MapPut(MapPut(EmptyMap, Id(0), Id(0)), Id(1), Id(1)),
                         Id(5), Id(12)),
    map_scene |-> MapPut(MapPut(EmptyMap, <<"y","1">>, <<"x","1">>),
                         <<"y","2">>, Id(9)),
    map_schedule |-> MapPut(EmptyMap, Id(1), Id(10)),
    map_rule |-> MapPut(MapPut(EmptyMap, Id(1), Id(1)), Id(5), Id(7))]}

ProbeTypes ==
  {S_lights, S_groups, S_sensors, S_schedules, S_rules, S_scenes, S_config,
   S_capabilities, <<"l","i","-","g">>}

ProbeIds ==
  {Id(0), Id(1), Id(3), Id(5), Id(12), <<"y","1">>, S_localtime, <<"a","-","b">>}

ProbeSuffixes ==
  {<<>>, S_state, S_action, <<"/">>, <<"\n">>, <<"/","a","\n">>,
   <<"/","a","\n","b">>, <<"-","x">>}

\* addresses without the key, with a key, with an empty key; and a type alone
ProbeAddresses ==
  {Addr(t, i, x) : t \in ProbeTypes, i \in ProbeIds, x \in ProbeSuffixes}
  \cup {ApiAddr(k, t, i, x) :
          k \in {oldKey, <<>>}, t \in ProbeTypes, i \in ProbeIds, x \in ProbeSuffixes}
  \cup {S_slash \o t : t \in ProbeTypes}

ProbeSceneIds == {None, Some(<<"y","1">>), Some(<<"z","z">>)}

\* scenes of a group, scenes of lights with and without appdata.data, and a
\* scene of another type
ProbeScenes ==
  {Scene(guid, name, type, group, None, None, appdata) :
     guid \in {<<"y","1">>, <<"d","1">>},
     name \in {<<"E","v">>, <<"a","!","b">>, <<"b">>},
     type \in {"GroupScene", "LightScene", "Other"},
     group \in {Some(Id(1)), Some(Id(5))},
     appdata \in {None, Some(<<"1","%","a">>), Some(<<"d","1">>),
                  Some(<<"d","1","!","a">>)}}

InitFunctions ==
  /\ pc = "probe"
  /\ stage = "enter"
  /\ idx = 0
  /\ args = Only("restore")
  /\ file = NoResources
  /\ hub = [res |-> NoResources, nextid |-> FirstNewId]
  /\ written = None
  /\ current = NoResources
  /\ target = NoResources
  /\ \E m \in ProbeMaps :
       /\ map_light = m.map_light
       /\ map_sensor = m.map_sensor
       /\ map_group = m.map_group
       /\ map_scene = m.map_scene
       /\ map_schedule = m.map_schedule
       /\ map_rule = m.map_rule
  /\ map_resource_links = EmptyMap
  /\ updates = <<>>
  /\ errors = <<>>
  /\ out = <<>>
  /\ calls = <<>>
  /\ lookups = {}
  /\ history = <<>>
  /\ abort = "none"
  /\ probe = NoProbe

Probed(p) ==
  /\ pc' = "probed"
  /\ probe' = p
  /\ UNCHANGED <<stage, idx, args, file, written, hub, current, target, maps,
                 updates, errors, out, calls, lookups, history, abort>>

probe_mapAddress ==
  /\ pc = "probe"
  /\ \E a \in ProbeAddresses, w \in BOOLEAN :
    Probed([fn |-> "mapAddress", address |-> a, with_api |-> w,
            result |-> mapAddress(a, w)])

probe_mapAction ==
  /\ pc = "probe"
  /\ \E a \in ProbeAddresses, s \in ProbeSceneIds, w \in BOOLEAN :
    Probed([fn |-> "mapAction", action |-> Action(a, s), with_api |-> w,
            result |-> mapAction(Action(a, s), w)])

\* two scenes, for one value of mapgroup
probe_sceneKey ==
  /\ pc = "probe"
  /\ \E d1 \in ProbeScenes, d2 \in ProbeScenes, g \in BOOLEAN :
    Probed([fn |-> "sceneKey", data |-> <<d1, d2>>, mapgroup |-> g,
            result |-> <<sceneKey(d1.id, d1, g), sceneKey(d2.id, d2, g)>>,
            again |-> <<sceneKey(d1.id, d1, g), sceneKey(d2.id, d2, g)>>])

\* appdata.data of a scene: none, a tag of the Hue app, a tag with a line
\* feed after it, a tag with a one-digit room and a tag with a line feed in
\* its prefix
ProbeTags ==
  {None,
   Some(<<"a","b","c","d","e","_","r","0","7","_","d","0","2">>),
   Some(<<"a","b","c","d","e","_","r","0","7","_","d","0","2","\n">>),
   Some(<<"a","b","c","d","e","_","r","7","_","d","0","2">>),
   Some(<<"a","b","\n","d","e","_","r","0","7","_","d","0","2">>)}

\* ids of groups of a bridge: group 0, a room, a room with two digits and an
\* entertainment area
ProbeGroups == {Id(0), Id(1), Id(12), Id(200)}

probe_NewSceneData ==
  /\ pc = "probe"
  /\ \E t \in ProbeTags, type \in {"GroupScene", "LightScene"}, g \in ProbeGroups :
    LET data == Scene(<<"y","1">>, <<"E","v">>, type,
                      IF type = "GroupScene" THEN Some(Id(5)) ELSE None,
                      None, None, t)
    IN Probed([fn |-> "NewSceneData", data |-> data, group |-> g,
               result |-> NewSceneData(data.id, data,
                                       IF type = "GroupScene" THEN g ELSE <<>>)])

NextFunctions ==
  \/ probe_mapAddress
  \/ probe_mapAction
  \/ probe_sceneKey
  \/ probe_NewSceneData

SpecFunctions == InitFunctions /\ [][NextFunctions]_vars

(***************************************************************************)
(* restore() called again on the same HueBackup object, by a caller other  *)
(* than hue_br.py: lines 98-108 run again, __init__ does not, so           *)
(* self.__current is the one read at construction and self.__errors and    *)
(* self.__updates are what the call before left.                           *)
(***************************************************************************)
\* the calls of restore() on one object
MaxRestores == 2

Restores == Cardinality({i \in 1..Len(history) : history[i] = "report"})

restore_again ==
  /\ pc = "exit"
  /\ Restores > 0
  /\ Restores < MaxRestores
  /\ target' = file
  /\ map_light' = EmptyMap
  /\ map_sensor' = MapPut(EmptyMap, <<"1">>, <<"1">>)
  /\ map_group' = MapPut(EmptyMap, <<"0">>, <<"0">>)
  /\ map_scene' = EmptyMap
  /\ map_schedule' = EmptyMap
  /\ map_rule' = EmptyMap
  /\ map_resource_links' = EmptyMap
  /\ pc' = PhaseAfter("fetch")
  /\ stage' = "enter"
  /\ idx' = 0
  /\ history' = Append(history, PhaseAfter("fetch"))
  /\ UNCHANGED <<args, file, probe, written, hub, current, updates, errors, out,
                 calls, lookups, abort>>

NextTwice ==
  \/ Next
  \/ restore_again

SpecTwice == Init /\ [][NextTwice]_vars

(***************************************************************************)
(* Properties of a run.                                                    *)
(***************************************************************************)
Began(p) == \E i \in 1..Len(history) : history[i] = p

NewCalls == SubSeq(calls', Len(calls) + 1, Len(calls'))
NewLines == {out'[i] : i \in (Len(out) + 1)..Len(out')}

IsWrite(c, rtype) ==
  c.req.rtype = rtype /\ c.req.method \in {"PUT", "POST"}

PhaseOrder ==
  <<"fetch", "lights", "flush_lights", "sensors", "flush_sensors", "groups",
    "scenes", "schedules", "rules", "resourcelinks", "cleanup", "report">>

Position(p) == CHOOSE i \in 1..Len(PhaseOrder) : PhaseOrder[i] = p

\* C1: the phases of a restore run begin once each and in the order fetch,
\* lights, flush of the light renames, sensors, flush of the sensor renames,
\* groups, scenes, schedules, rules, resource links, pruning, report; a run
\* that exits has begun them all; once the groups phase has begun the light
\* and sensor maps do not change, and once pruning has begun the schedule
\* and rule maps do not change.
C1_PhasesInOrder ==
  /\ [](/\ Len(history) <= Len(PhaseOrder)
        /\ \A i \in 1..Len(history) : i <= Len(PhaseOrder) => history[i] = PhaseOrder[i]
        /\ (pc = "exit" /\ args.restore) => history = PhaseOrder
        /\ pc \in RestorePhases \cup {"report"} => history[Len(history)] = pc)
  /\ [][/\ Began("groups") => map_light' = map_light /\ map_sensor' = map_sensor
        /\ Began("cleanup") => map_schedule' = map_schedule /\ map_rule' = map_rule]_vars

C1_Witness == pc = "exit" /\ args.restore /\ history = PhaseOrder

\* C2: whenever __mapAddress / __mapAction looks up an id of type T in a
\* phase, the phase that builds T's map comes before that phase, for T in
\* lights, groups, sensors, scenes, schedules, rules.
C2_NoForwardReference ==
  \A l \in lookups : Position(l[2]) < Position(l[1])

UniqueIds(coll) ==
  {The(coll[i].uniqueid) : i \in {j \in 1..Len(coll) : IsSome(coll[j].uniqueid)}}

\* the id of the last entry of coll that has the uniqueid u
LastWith(coll, u) ==
  coll[CHOOSE i \in 1..Len(coll) :
         /\ coll[i].uniqueid = Some(u)
         /\ \A j \in (i + 1)..Len(coll) : coll[j].uniqueid # Some(u)].id

\* a later entry of coll has the uniqueid of the n-th
Shadowed(coll, n) ==
  \E j \in (n + 1)..Len(coll) : coll[j].uniqueid = coll[n].uniqueid

CannotRestore ==
  {"light cannot be restored, since it doesn't exist in target bridge",
   "sensor cannot be restored, since it doesn't exist in target bridge"}

WarnedFor(u) ==
  \E i \in 1..Len(out) :
    out[i].lvl = "WARNING" /\ out[i].msg \in CannotRestore /\ out[i].arg = <<u>>

\* an entry without uniqueid is reported by its id, as an error
ReportedMissing(id) ==
  \E i \in 1..Len(out) :
    out[i].lvl = "ERROR" /\ out[i].msg = "missing uniqueid for index"
    /\ out[i].arg = <<id>>

\* a line of the log is about the entry
Reported(e) ==
  IF IsSome(e.uniqueid) THEN WarnedFor(The(e.uniqueid)) ELSE ReportedMissing(e.id)

\* the map sends the entry's id to a current entity with the entry's uniqueid
Paired(s, m, e) ==
  /\ e.id \in DOMAIN m
  /\ \E j \in 1..Len(s) : s[j].id = m[e.id] /\ s[j].uniqueid = e.uniqueid

MapsOrWarns(t, s, m) ==
  \A n \in 1..Len(t) :
    IF IsSome(t[n].uniqueid) /\ The(t[n].uniqueid) \in UniqueIds(s)
    THEN Paired(s, m, t[n])
    ELSE Reported(t[n]) /\ t[n].id \notin DOMAIN m

\* C3 as stated: after the lights phase and after the sensors phase, every
\* target entry whose uniqueid exists in the current collection is paired in
\* the map with the current entity of that uniqueid, and for every other
\* target entry a warning (an error, when it has no uniqueid) is emitted for
\* it and its id is no key of the map.
C3_MapsOrWarns ==
  /\ Began("flush_lights") => MapsOrWarns(target.lights, current.lights, map_light)
  /\ Began("flush_sensors") => MapsOrWarns(target.sensors, current.sensors, map_sensor)

Seeded(m, id) == id = <<"1">> /\ m[id] = <<"1">>

\* C3 as the code has it: of the target entries with one uniqueid the last
\* counts.  It is paired with the last current entity of that uniqueid; or,
\* a virtual sensor the bridge lacks, it is created without a warning and
\* paired with the new sensor; or a warning is emitted and its id is no key
\* of the map.  An entry without uniqueid or before another of its uniqueid
\* gets no key, and an error when it has no uniqueid and is not named
\* Daylight.  The seed of the sensor map stays a key throughout.
C3_LastMapsOrWarns ==
  /\ Began("flush_lights") =>
       \A n \in 1..Len(target.lights) :
         IF IsSome(target.lights[n].uniqueid) /\ ~Shadowed(target.lights, n)
         THEN IF The(target.lights[n].uniqueid) \in UniqueIds(current.lights)
              THEN /\ target.lights[n].id \in DOMAIN map_light
                   /\ map_light[target.lights[n].id] =
                        LastWith(current.lights, The(target.lights[n].uniqueid))
              ELSE /\ WarnedFor(The(target.lights[n].uniqueid))
                   /\ target.lights[n].id \notin DOMAIN map_light
         ELSE /\ target.lights[n].id \notin DOMAIN map_light
              /\ (~IsSome(target.lights[n].uniqueid)
                  /\ target.lights[n].name # S_Daylight) =>
                   ReportedMissing(target.lights[n].id)
  /\ Began("flush_sensors") =>
       \A n \in 1..Len(target.sensors) :
         IF IsSome(target.sensors[n].uniqueid) /\ ~Shadowed(target.sensors, n)
         THEN IF The(target.sensors[n].uniqueid) \in UniqueIds(current.sensors)
              THEN /\ target.sensors[n].id \in DOMAIN map_sensor
                   /\ map_sensor[target.sensors[n].id] =
                        LastWith(current.sensors, The(target.sensors[n].uniqueid))
              ELSE IF target.sensors[n].type \in {"CLIPGenericFlag", "CLIPGenericStatus"}
              THEN /\ target.sensors[n].id \in DOMAIN map_sensor
                   /\ map_sensor[target.sensors[n].id] \notin Ids(current.sensors)
                   /\ \E j \in 1..Len(hub.res.sensors) :
                        /\ hub.res.sensors[j].id = map_sensor[target.sensors[n].id]
                        /\ hub.res.sensors[j].uniqueid = target.sensors[n].uniqueid
                   /\ ~WarnedFor(The(target.sensors[n].uniqueid))
              ELSE /\ WarnedFor(The(target.sensors[n].uniqueid))
                   /\ target.sensors[n].id \in DOMAIN map_sensor =>
                        Seeded(map_sensor, target.sensors[n].id)
         ELSE /\ target.sensors[n].id \in DOMAIN map_sensor =>
                   Seeded(map_sensor, target.sensors[n].id)
              /\ (~IsSome(target.sensors[n].uniqueid)
                  /\ target.sensors[n].name # S_Daylight) =>
                   ReportedMissing(target.sensors[n].id)

C3_Witness ==
  /\ Began("flush_sensors")
  /\ \E n \in 1..Len(target.lights) : target.lights[n].id \in DOMAIN map_light
  /\ \E n \in 1..Len(target.lights) :
       /\ IsSome(target.lights[n].uniqueid)
       /\ WarnedFor(The(target.lights[n].uniqueid))
  /\ \E n \in 1..Len(target.sensors) :
       /\ target.sensors[n].type = "CLIPGenericFlag"
       /\ target.sensors[n].id \in DOMAIN map_sensor
  /\ \E n \in 1..Len(target.sensors) :
       /\ ~IsSome(target.sensors[n].uniqueid)
       /\ target.sensors[n].id \in DOMAIN map_sensor

\* C4: in every state of a restore run the sensor map sends "1" to "1" and
\* the group map sends "0" to "0".
C4_SeedsKept ==
  Began("lights") =>
    /\ <<"1">> \in DOMAIN map_sensor /\ map_sensor[<<"1">>] = <<"1">>
    /\ <<"0">> \in DOMAIN map_group /\ map_group[<<"0">>] = <<"0">>

\* the entity exists on the bridge; group 0 is the bridge's own group of all
\* lights, which no listing shows
Exists(rtype, id) ==
  (rtype = "groups" /\ id = <<"0">>) \/ HubHas(hub, rtype, id)

ValuesExist(m, rtype) == \A k \in DOMAIN m : Exists(rtype, m[k])

\* C5: whenever a phase consults an identity map, the ids it holds denote
\* entities that exist on the bridge: the values of the light, sensor,
\* group, scene, schedule and rule maps in every state of the restore, and
\* the value the pruning phase is about to read from the resource-link map
\* and to fetch.
C5_MappedIdsExist ==
  /\ Began("lights") =>
       /\ ValuesExist(map_light, "lights")
       /\ ValuesExist(map_sensor, "sensors")
       /\ ValuesExist(map_group, "groups")
       /\ ValuesExist(map_scene, "scenes")
       /\ ValuesExist(map_schedule, "schedules")
       /\ ValuesExist(map_rule, "rules")
  /\ (InLoop("cleanup")
      /\ target.resourcelinks[idx + 1].id \in DOMAIN map_resource_links) =>
       Exists("resourcelinks", map_resource_links[target.resourcelinks[idx + 1].id])

Renamed(orig, res, i) == res[i].name # orig[i].name

\* of the k entries of a name k-1 are renamed and the first keeps the name;
\* the names of the whole collection are pairwise distinct
Deduplicated(orig, res) ==
  /\ Len(res) = Len(orig)
  /\ \A i \in 1..Len(orig) :
       Renamed(orig, res, i) <=> \E j \in 1..(i - 1) : orig[j].name = orig[i].name
  /\ \A i, j \in 1..Len(res) : i # j => res[i].name # res[j].name

FixedTypes == {"groups", "rules", "schedules", "resourcelinks"}

\* C6 as stated: after __fixNames, of the k entries that share a name k-1
\* are renamed and the first keeps its name, all names of the collection are
\* pairwise distinct, and every name is at most 31 characters long.
C6_DistinctAndShort ==
  pc = "backup" =>
    \A t \in FixedTypes :
      /\ Deduplicated(hub.res[t], current[t])
      /\ \A i \in 1..Len(current[t]) : Len(current[t][i].name) <= 31

\* C6 as the code has it: after __fixNames, of the k entries that share a
\* name k-1 are renamed and the first keeps its name, all names of the
\* collection are pairwise distinct, and every name that __fixNames gave is
\* at most 31 characters long (a name it keeps is as long as it was).
C6_DistinctAndRenamedShort ==
  pc = "backup" =>
    \A t \in FixedTypes :
      /\ Deduplicated(hub.res[t], current[t])
      /\ \A i \in 1..Len(current[t]) :
           Renamed(hub.res[t], current[t], i) => Len(current[t][i].name) <= 31

C6_Witness ==
  /\ pc = "backup"
  /\ \E i, j \in 1..Len(current.groups) :
       /\ j < i
       /\ hub.res.groups[i].name = hub.res.groups[j].name
       /\ Renamed(hub.res.groups, current.groups, i)
       /\ Len(hub.res.groups[i].name) >= 31
       /\ Len(current.groups[i].name) = 31

\* the reference of an address: what the pattern finds in it
RefOf(a, with_api) ==
  IF with_api THEN MATCH_SCHEDULE_ADDRESS(a) ELSE MATCH_RULE_ADDRESS(a)

\* the type and id of an address whose id is in no map
UnmappedRef(a, with_api) ==
  IF /\ RefOf(a, with_api).ok
     /\ \E i \in 1..Len(MappedTypes) :
          /\ MappedTypes[i].ctype = RefOf(a, with_api).g2
          /\ RefOf(a, with_api).g3 \notin DOMAIN MapOf(MappedTypes[i].name)
  THEN {<<RefOf(a, with_api).g2, RefOf(a, with_api).g3>>}
  ELSE {}

\* the same for an action, with the scene of an action on a group
UnmappedRefs(action, with_api) ==
  UnmappedRef(action.address, with_api)
  \cup (IF /\ RefOf(action.address, with_api).ok
           /\ RefOf(action.address, with_api).g2 = S_groups
           /\ IsSome(action.body.scene)
           /\ The(action.body.scene) \notin DOMAIN map_scene
        THEN {<<S_scenes, The(action.body.scene)>>}
        ELSE {})

\* an address of no known form or type
Unknown(a, with_api) ==
  \/ ~RefOf(a, with_api).ok
  \/ /\ RefOf(a, with_api).g2 # S_config
     /\ \A i \in 1..Len(MappedTypes) :
          MappedTypes[i].ctype # RefOf(a, with_api).g2

\* a line is printed that names a reference that did not rewrite: a warning
\* with the type and id that is in no map, or the error for an address of
\* no known form or type
NamesFailure(unmapped, unknown) ==
  \E l \in NewLines :
    \/ l.lvl = "WARNING" /\ l.arg \in unmapped
    \/ l.lvl = "ERROR" /\ l.arg \in {<<a>> : a \in unknown}

ScheduleStep ==
  LET data == target.schedules[idx + 1]
  IN /\ ~mapAction(data.command, TRUE).ok =>
          /\ calls' = calls
          /\ map_schedule' = map_schedule
          /\ NamesFailure(UnmappedRefs(data.command, TRUE),
                          {a \in {data.command.address} : Unknown(a, TRUE)})
          /\ UnmappedRefs(data.command, TRUE) # {} =>
               \E l \in NewLines :
                 l.lvl = "WARNING" /\ l.arg \in UnmappedRefs(data.command, TRUE)
     /\ \A i \in 1..Len(NewCalls) :
          /\ IsWrite(NewCalls[i], "schedules")
          /\ mapAction(data.command, TRUE).ok
          /\ NewCalls[i].req.body.command = mapAction(data.command, TRUE).action

RuleStep ==
  LET data == target.rules[idx + 1]
      fails ==
        \/ \E i \in 1..Len(data.conditions) : ~mapAddress(data.conditions[i], FALSE).ok
        \/ \E i \in 1..Len(data.actions) : ~mapAction(data.actions[i], FALSE).ok
      unmapped ==
        UNION ({UnmappedRef(data.conditions[i], FALSE) : i \in 1..Len(data.conditions)}
               \cup {UnmappedRefs(data.actions[i], FALSE) : i \in 1..Len(data.actions)})
      unknown ==
        {data.conditions[i] : i \in {j \in 1..Len(data.conditions) :
                                       Unknown(data.conditions[j], FALSE)}}
        \cup {data.actions[i].address : i \in {j \in 1..Len(data.actions) :
                                       Unknown(data.actions[j].address, FALSE)}}
  IN ~Deleted(data) =>
       /\ fails =>
            /\ calls' = calls
            /\ map_rule' = map_rule
            /\ NamesFailure(unmapped, unknown)
            /\ unknown = {} =>
                 \E l \in NewLines : l.lvl = "WARNING" /\ l.arg \in unmapped
       /\ \A i \in 1..Len(NewCalls) :
            /\ IsWrite(NewCalls[i], "rules")
            /\ ~fails
            /\ Len(NewCalls[i].req.body.conditions) = Len(data.conditions)
            /\ Len(NewCalls[i].req.body.actions) = Len(data.actions)

\* C7: for every target schedule and rule (one not deleted, which is not
\* looked at): if its command address, one of its condition or action
\* addresses or the scene of an action on a group does not rewrite, no PUT
\* or POST is sent for it, its id is not added to the schedule or rule map,
\* and a line naming a reference that did not rewrite is printed, a warning
\* with its type and id when the id is in no map; a schedule or rule that
\* is written is written with all its conditions and actions.
C7_SkippedWhole ==
  [][/\ InLoop("schedules") => ScheduleStep
     /\ InLoop("rules") => RuleStep]_vars

C7_Witness ==
  /\ pc = "rules" /\ stage = "loop" /\ idx > 0
  /\ \E n \in 1..idx :
       /\ \E i \in 1..Len(target.rules[n].actions) :
            target.rules[n].actions[i].address = Addr(S_groups, Id(3), S_action)
       /\ target.rules[n].id \notin DOMAIN map_rule
  /\ \E i \in 1..Len(out) :
       out[i] = NonExisting(S_groups, Id(3))
  /\ \E i \in 1..Len(calls) : IsWrite(calls[i], "rules") /\ calls[i].ok

\* the member addresses of a resource link that rewrite, and the rest
Rewrites(l) == mapAddress(l, FALSE).ok
NotRewrites(l) == ~mapAddress(l, FALSE).ok

RECURSIVE Applied(_, _, _)
Applied(h, cs, n) ==
  IF n = 0 THEN h
  ELSE IF cs[n].ok THEN HubApply(Applied(h, cs, n - 1), cs[n].req)
  ELSE Applied(h, cs, n - 1)

\* C9: a call that fails is the last call of the run, which is then dead of
\* it: no call follows and none is sent again; and each step leaves the
\* bridge as the successful calls of the step made it, so that what was
\* written before a failure stays written.
C9_AbortOnFailure ==
  /\ [](\A i \in 1..Len(calls) :
          ~calls[i].ok => i = Len(calls) /\ pc = "dead" /\ abort = "request")
  /\ [][/\ Len(calls') >= Len(calls)
        /\ SubSeq(calls', 1, Len(calls)) = calls
        /\ hub' = Applied(hub, NewCalls, Len(NewCalls))
        /\ abort = "request" => calls' = calls]_vars

C9_Witness ==
  /\ abort = "request"
  /\ pc = "dead"
  /\ ~calls[Len(calls)].ok
  /\ \E i \in 1..(Len(calls) - 1) :
       /\ calls[i].ok
       /\ calls[i].req.method \in {"PUT", "POST"}
       /\ HubHas(hub, calls[i].req.rtype,
                 IF calls[i].req.method = "PUT" THEN The(calls[i].req.id)
                 ELSE hub.res[calls[i].req.rtype][Len(hub.res[calls[i].req.rtype])].id)

\* C10: only a call that fails ends a restore run: a run whose calls all
\* succeed does not die, whatever the snapshot and the bridge hold.
C10_OnlyFailedCallsFatal ==
  (args.restore /\ pc = "dead") => \E i \in 1..Len(calls) : ~calls[i].ok

EntityPhases ==
  {"lights", "sensors", "groups", "scenes", "schedules", "rules", "resourcelinks"}

\* C11: when the step for a target entity records a structural error, the
\* entity is abandoned: the step sends no PUT or POST, schedules none, adds
\* no entry to an identity map, and the run goes on to the next entity.
C11_ErrorAbandons ==
  [][(/\ pc \in EntityPhases
      /\ stage = "loop"
      /\ \E l \in NewLines : l.lvl = "ERROR") =>
       /\ \A j \in 1..Len(NewCalls) : NewCalls[j].req.method \notin {"PUT", "POST"}
       /\ maps' = maps
       /\ updates' = updates
       /\ abort' # "exception"
       /\ errors' # errors]_vars

\* the address is of a light or of a group other than group 0
RelevantAddress(a, with_api) ==
  /\ RefOf(a, with_api).ok
  /\ \/ RefOf(a, with_api).g2 = S_lights
     \/ RefOf(a, with_api).g2 = S_groups /\ RefOf(a, with_api).g3 # <<"0">>

\* the member address l points at a rule of the bridge with an action on a
\* light or group, or at a schedule whose command is on a light or group
PointsAtRelevant(h, l) ==
  /\ MATCH_RESOURCE_LINK(l).ok
  /\ \/ /\ MATCH_RESOURCE_LINK(l).g1 = S_rules
        /\ HasId(h.res.rules, MATCH_RESOURCE_LINK(l).g2)
        /\ \E a \in Range(Find(h.res.rules, MATCH_RESOURCE_LINK(l).g2).actions) :
             RelevantAddress(a.address, FALSE)
     \/ /\ MATCH_RESOURCE_LINK(l).g1 = S_schedules
        /\ HasId(h.res.schedules, MATCH_RESOURCE_LINK(l).g2)
        /\ RelevantAddress(
             Find(h.res.schedules, MATCH_RESOURCE_LINK(l).g2).command.address, TRUE)

Relevant(h, link) == \E l \in Range(link.links) : PointsAtRelevant(h, l)

\* C12: the pruning step for a restored target resource link (one with an
\* entry in the resource-link map) leaves the mapped link on the bridge if
\* and only if it is relevant, that is, a member address of it points at a
\* rule with an action on a light or a group other than 0, or at a schedule
\* whose command is on a light or a group other than 0; pruning changes no
\* rule and no schedule; and when the run reports, every mapped link that
\* is on the bridge is relevant.
C12_PrunedIffIrrelevant ==
  /\ [](Began("report") =>
          \A n \in 1..Len(target.resourcelinks) :
            (/\ target.resourcelinks[n].id \in DOMAIN map_resource_links
             /\ HubHas(hub, "resourcelinks",
                       map_resource_links[target.resourcelinks[n].id])) =>
              Relevant(hub, Find(hub.res.resourcelinks,
                                 map_resource_links[target.resourcelinks[n].id])))
  /\ [][(/\ InLoop("cleanup")
         /\ target.resourcelinks[idx + 1].id \in DOMAIN map_resource_links
         /\ HubHas(hub, "resourcelinks",
                   map_resource_links[target.resourcelinks[idx + 1].id])
         /\ pc' = "cleanup") =>
          /\ HubHas(hub', "resourcelinks",
                    map_resource_links[target.resourcelinks[idx + 1].id])
             <=> Relevant(hub, Find(hub.res.resourcelinks,
                                    map_resource_links[target.resourcelinks[idx + 1].id]))
          /\ hub'.res.rules = hub.res.rules
          /\ hub'.res.schedules = hub.res.schedules]_vars

\* a link that was on the bridge before and was updated is pruned: its only
\* member rule acts on group 0
C12_Witness ==
  /\ Began("report")
  /\ \E n \in 1..Len(target.resourcelinks) :
       /\ target.resourcelinks[n].id \in DOMAIN map_resource_links
       /\ map_resource_links[target.resourcelinks[n].id] \in Ids(current.resourcelinks)
       /\ ~HubHas(hub, "resourcelinks", map_resource_links[target.resourcelinks[n].id])
       /\ \E c \in Range(calls) :
            /\ c.ok /\ c.req.method = "PUT" /\ c.req.rtype = "resourcelinks"
            /\ c.req.id = Some(map_resource_links[target.resourcelinks[n].id])
  /\ \E r \in Range(hub.res.rules) :
       \E a \in Range(r.actions) : a.address = Addr(S_groups, Id(0), S_action)

\* the identity map of the type of a parsed address, if the type has one
HasMap(ctype) == \E i \in 1..Len(MappedTypes) : MappedTypes[i].ctype = ctype
MapFor(ctype) ==
  MapOf(MappedTypes[CHOOSE i \in 1..Len(MappedTypes) :
                      MappedTypes[i].ctype = ctype].name)

\* C13: for an address that the pattern accepts (with the key or without)
\* and whose id is a key of the map of its type, __mapAddress succeeds, and
\* the pattern finds in the rewritten address the same type, the id the map
\* gives, and the same suffix, none where there was none.
C13_RoundTrip ==
  (/\ probe.fn = "mapAddress"
   /\ RefOf(probe.address, probe.with_api).ok
   /\ HasMap(RefOf(probe.address, probe.with_api).g2)
   /\ RefOf(probe.address, probe.with_api).g3
        \in DOMAIN MapFor(RefOf(probe.address, probe.with_api).g2)) =>
    /\ probe.result.ok
    /\ RefOf(probe.result.address, probe.with_api).ok
    /\ RefOf(probe.result.address, probe.with_api).g2
         = RefOf(probe.address, probe.with_api).g2
    /\ RefOf(probe.result.address, probe.with_api).g3
         = MapFor(RefOf(probe.address, probe.with_api).g2)[
             RefOf(probe.address, probe.with_api).g3]
    /\ RefOf(probe.result.address, probe.with_api).g4
         = RefOf(probe.address, probe.with_api).g4

C13_Witness ==
  /\ probe.fn = "mapAddress"
  /\ probe.with_api
  /\ probe.address = ApiAddr(oldKey, S_groups, Id(5), S_action)
  /\ probe.result.ok
  /\ probe.result.address = ApiAddr(apiKey, S_groups, Id(12), S_action)
  /\ RefOf(probe.result.address, TRUE).g3 = Id(12)
  /\ RefOf(probe.result.address, TRUE).g4 = S_action

KnownTypes ==
  {S_lights, S_groups, S_sensors, S_schedules, S_rules, S_scenes, S_config}

\* C14: __mapAddress fails and records an error, and no warning, for an
\* address whose type is none of lights, groups, sensors, schedules, rules,
\* scenes, config (or that has no type, the pattern not accepting it); it
\* fails with the warning of the type and id, and no error, for an address
\* of a type with a map whose id is no key of the map; it succeeds for a
\* config address, with the id and the suffix as they were, looking in no
\* map and logging nothing.
C14_Outcomes ==
  probe.fn = "mapAddress" =>
    /\ (\/ ~RefOf(probe.address, probe.with_api).ok
        \/ RefOf(probe.address, probe.with_api).g2 \notin KnownTypes) =>
         /\ ~probe.result.ok
         /\ Len(probe.result.log) = 1
         /\ probe.result.log[1].lvl = "ERROR"
         /\ probe.result.log[1].arg = <<probe.address>>
    /\ (/\ RefOf(probe.address, probe.with_api).ok
        /\ HasMap(RefOf(probe.address, probe.with_api).g2)
        /\ RefOf(probe.address, probe.with_api).g3
             \notin DOMAIN MapFor(RefOf(probe.address, probe.with_api).g2)) =>
         /\ ~probe.result.ok
         /\ Len(probe.result.log) = 1
         /\ probe.result.log[1].lvl = "WARNING"
         /\ probe.result.log[1].arg = <<RefOf(probe.address, probe.with_api).g2,
                                        RefOf(probe.address, probe.with_api).g3>>
    /\ (/\ RefOf(probe.address, probe.with_api).ok
        /\ RefOf(probe.address, probe.with_api).g2 = S_config) =>
         /\ probe.result.ok
         /\ probe.result.ctype = S_config
         /\ probe.result.log = <<>>
         /\ probe.result.seen = {}
         /\ probe.result.address =
              IF probe.with_api
              THEN ApiAddr(apiKey, S_config,
                           RefOf(probe.address, TRUE).g3,
                           RefOf(probe.address, TRUE).g4)
              ELSE Addr(S_config, RefOf(probe.address, FALSE).g3,
                        RefOf(probe.address, FALSE).g4)

C14_Witness ==
  /\ probe.fn = "mapAddress"
  /\ ~probe.with_api
  /\ probe.address = Addr(S_capabilities, Id(1), S_state)
  /\ ~probe.result.ok
  /\ probe.result.log =
       <<Err("unsupported resource type in", <<Addr(S_capabilities, Id(1), S_state)>>)>>
  /\ map_light # EmptyMap

\* an action on a group (one whose address rewrites) that carries a scene
OnGroupWithScene(a, with_api) ==
  /\ mapAddress(a.address, with_api).ok
  /\ mapAddress(a.address, with_api).ctype = S_groups
  /\ IsSome(a.body.scene)

\* the body an accepted action is written with
WrittenBody(a, with_api) ==
  IF OnGroupWithScene(a, with_api)
  THEN [scene |-> Some(map_scene[The(a.body.scene)])]
  ELSE a.body

\* the scene is in no map: the action is invalid
InvalidScene(a, with_api) ==
  OnGroupWithScene(a, with_api) /\ The(a.body.scene) \notin DOMAIN map_scene

\* C15: a schedule or rule with an action on a group whose body carries a
\* scene that is no key of the scene map is not written (no request is sent
\* for it and it gets no map entry); a schedule or rule that is written is
\* written with, for every action on a group that carries a scene, the scene
\* the scene map gives, and for every other action the body as it was.
C15_GroupSceneMapped ==
  [][/\ InLoop("schedules") =>
          /\ InvalidScene(target.schedules[idx + 1].command, TRUE) =>
               calls' = calls /\ map_schedule' = map_schedule
          /\ \A j \in 1..Len(NewCalls) :
               NewCalls[j].req.body.command.body =
                 WrittenBody(target.schedules[idx + 1].command, TRUE)
     /\ (InLoop("rules") /\ ~Deleted(target.rules[idx + 1])) =>
          /\ (\E a \in Range(target.rules[idx + 1].actions) :
                InvalidScene(a, FALSE)) =>
               calls' = calls /\ map_rule' = map_rule
          /\ \A j \in 1..Len(NewCalls) :
               /\ Len(NewCalls[j].req.body.actions) = Len(target.rules[idx + 1].actions)
               /\ \A i \in 1..Len(target.rules[idx + 1].actions) :
                    NewCalls[j].req.body.actions[i].body =
                      WrittenBody(target.rules[idx + 1].actions[i], FALSE)]_vars

\* a rule is written with the scene of its action on a group mapped and the
\* scene of its action on a light as it was, after a rule with a scene in
\* no map was left out
C15_Witness ==
  /\ \E c \in Range(calls) :
       /\ c.ok /\ IsWrite(c, "rules")
       /\ \E i, k \in 1..Len(c.req.body.actions) :
            /\ c.req.body.actions[i].body.scene = Some(<<"z","z">>)
            /\ c.req.body.actions[k].body.scene = Some(map_scene[<<"y","2">>])
            /\ map_scene[<<"y","2">>] # <<"y","2">>
  /\ <<"z","z">> \notin DOMAIN map_scene
  /\ \E i \in 1..Len(out) : out[i] = NonExisting(S_scenes, <<"z","z">>)

\* what the key of a scene is made of: the group and the name of a scene of
\* a group; appdata.data, or the id where there is none, and the name of a
\* scene of lights
KeyPair(d) ==
  IF d.type = "GroupScene" THEN <<The(d.group), d.name>>
  ELSE <<IF IsSome(d.appdata) THEN The(d.appdata) ELSE d.id, d.name>>

\* C16: __sceneKey gives the same key when it is derived again from the same
\* scene, and two scenes (of a group, of lights, or one of each) that differ
\* in the pair of group or appdata and name never get the same key.
C16_KeyInjective ==
  (/\ probe.fn = "sceneKey"
   /\ IsSome(probe.result[1])
   /\ IsSome(probe.result[2])) =>
    /\ probe.again = probe.result
    /\ KeyPair(probe.data[1]) # KeyPair(probe.data[2]) =>
         probe.result[1] # probe.result[2]

\* the scene of the snapshot that the step of the scenes loop restores
SceneAt == Find(target.scenes, restoreScenes_tm.m[idx + 1].v)

\* the key of a group scene: group id, "%", name
GroupKey(g, n) == g \o <<"%">> \o n

\* the scenes of the bridge that have the key, found by their own group id
ScenesKeyed(key) ==
  {i \in 1..Len(current.scenes) :
     sceneKey(current.scenes[i].id, current.scenes[i], FALSE) = Some(key)}

\* the one of them the key leads to: the last
SceneKeyed(key) ==
  current.scenes[CHOOSE i \in ScenesKeyed(key) : \A j \in ScenesKeyed(key) : j <= i]

\* a group scene with light states whose group is in the group map
MappedGroupScene(d) ==
  /\ d.type = "GroupScene"
  /\ IsSome(d.group)
  /\ The(d.group) \in DOMAIN map_group
  /\ IsSome(d.lightstates)

\* C17: a group scene of the snapshot named n whose group g is mapped to g'
\* is matched by the key g'%n against the scenes of the bridge, which are
\* keyed by their own group id.  If a scene of the bridge has that key (and
\* the same type and recycle flag), exactly that scene is updated with a PUT
\* and the scene map sends the id of the snapshot's scene to it; if none has,
\* one scene is created with a POST whose body carries the group g' and the
\* scene map sends the id of the snapshot's scene to the id created.
C17_MatchedInCurrentIds ==
  [][(InLoop("scenes") /\ MappedGroupScene(SceneAt)) =>
       LET d   == SceneAt
           g   == map_group[The(d.group)]
           key == GroupKey(g, d.name)
       IN IF ScenesKeyed(key) # {}
          THEN LET c == SceneKeyed(key)
               IN /\ \A j \in 1..Len(NewCalls) :
                       /\ NewCalls[j].req.method = "PUT"
                       /\ NewCalls[j].req.rtype = "scenes"
                       /\ NewCalls[j].req.id = Some(c.id)
                  /\ (c.type = d.type /\ c.recycle = d.recycle) =>
                       /\ Len(NewCalls) = 1
                       /\ NewCalls[1].ok => map_scene' = MapPut(map_scene, d.id, c.id)
          ELSE /\ Len(NewCalls) = 1
               /\ NewCalls[1].req.method = "POST"
               /\ NewCalls[1].req.rtype = "scenes"
               /\ NewCalls[1].req.body.group = g
               /\ NewCalls[1].ok =>
                    map_scene' = MapPut(map_scene, d.id, HubNewId(hub))]_vars

\* group 5 of the snapshot is group 1 of the bridge: the scene Ev of group 5
\* was matched with the scene x1 of group 1 and updated, the scene Mo of
\* group 5 was created in group 1
C17_Witness ==
  /\ file = RemappedSnapshot
  /\ Id(5) \in DOMAIN map_group
  /\ map_group[Id(5)] = Id(1)
  /\ DOMAIN map_scene = {<<"y","1">>, <<"y","2">>}
  /\ map_scene[<<"y","1">>] = <<"x","1">>
  /\ map_scene[<<"y","2">>] \notin Ids(current.scenes)
  /\ HubHas(hub, "scenes", map_scene[<<"y","2">>])
  /\ \E c \in Range(calls) :
       /\ c.ok /\ c.req.method = "PUT" /\ c.req.rtype = "scenes"
       /\ c.req.id = Some(<<"x","1">>)
  /\ \E c \in Range(calls) :
       /\ c.ok /\ c.req.method = "POST" /\ c.req.rtype = "scenes"
       /\ c.req.body.group = Id(1)

\* the step of the scenes loop restores a scene that reaches the comparison
\* with the scene of the bridge that has its key
MatchesCurrent ==
  /\ InLoop("scenes")
  /\ ScenesKeyed(restoreScenes_tm.m[idx + 1].k) # {}
  /\ IsSome(SceneAt.lightstates)
  /\ IsSome(SceneAt.group) => The(SceneAt.group) \in DOMAIN map_group
  /\ (~IsSome(SceneAt.group) /\ IsSome(SceneAt.lights)) =>
       \E l \in Range(The(SceneAt.lights)) : l \in DOMAIN map_light

\* the scene is skipped with an error: an error is recorded, nothing is
\* sent, the scene map stays as it is and the loop goes on
SkippedWithError ==
  /\ \E line \in NewLines : IsErr(line)
  /\ errors' # errors
  /\ calls' = calls
  /\ map_scene' = map_scene
  /\ pc' = pc

\* C18: when a scene of the snapshot matches a scene of the bridge by key and
\* the type or the recycle flag of the two differ, an error is recorded and
\* the scene is skipped: no PUT is sent for it and it gets no entry in the
\* scene map.
C18_MismatchSkipped ==
  [][(/\ MatchesCurrent
      /\ \/ SceneKeyed(restoreScenes_tm.m[idx + 1].k).type # SceneAt.type
         \/ SceneKeyed(restoreScenes_tm.m[idx + 1].k).recycle # SceneAt.recycle)
       => SkippedWithError]_vars

\* the same for the type alone
C18_TypeMismatchSkipped ==
  [][(/\ MatchesCurrent
      /\ SceneKeyed(restoreScenes_tm.m[idx + 1].k).type # SceneAt.type)
       => SkippedWithError]_vars

\* a scene was skipped for its type
C18_TypeWitness ==
  /\ file = MixedSnapshot
  /\ pc = "scenes" /\ stage = "loop" /\ idx = 1
  /\ map_scene = EmptyMap
  /\ \E i \in 1..Len(errors) : errors[i].msg = "scene has different type, expected"

\* the scenes of the snapshot without light states
Unrestorable ==
  {target.scenes[i].id : i \in {j \in 1..Len(target.scenes) :
                                  ~IsSome(target.scenes[j].lightstates)}}

\* the scene gets as far as line 329: its group is in the group map, or it
\* has no group and, if it lists lights, one of them is in the light map and
\* the others are lights of the snapshot
ReachesStates(d) ==
  IF IsSome(d.group) THEN The(d.group) \in DOMAIN map_group
  ELSE IsSome(d.lights) =>
         /\ \E l \in Range(The(d.lights)) : l \in DOMAIN map_light
         /\ \A l \in Range(The(d.lights)) :
              l \in DOMAIN map_light \/ HasId(target.lights, l)

\* the error of line 330 for the scene
NoStatesError(guid) ==
  Err("scene cannot be restored, since light states are not present in backup",
      <<guid>>)

\* the member addresses of a resource link that are a scene without light
\* states
UnrestorableMembers(data) ==
  {i \in 1..Len(data.links) :
     \E u \in Unrestorable : data.links[i] = Addr(S_scenes, u, <<>>)}

\* nothing that refers to a scene without light states is written with the
\* reference: a schedule or rule with an action on a group that carries the
\* scene is not written, and a resource link is written without the address
LaterReferencesFail ==
  /\ InLoop("schedules") =>
       LET a == target.schedules[idx + 1].command
       IN (OnGroupWithScene(a, TRUE) /\ The(a.body.scene) \in Unrestorable) =>
            calls' = calls /\ map_schedule' = map_schedule
  /\ (InLoop("rules") /\ ~Deleted(target.rules[idx + 1])) =>
       ((\E a \in Range(target.rules[idx + 1].actions) :
           OnGroupWithScene(a, FALSE) /\ The(a.body.scene) \in Unrestorable) =>
          calls' = calls /\ map_rule' = map_rule)
  /\ InLoop("resourcelinks") =>
       LET data == target.resourcelinks[idx + 1]
       IN \A j \in 1..Len(NewCalls) :
            IsWrite(NewCalls[j], "resourcelinks") =>
              /\ Len(NewCalls[j].req.body.links) + Cardinality(UnrestorableMembers(data))
                   <= Len(data.links)
              /\ \A i \in UnrestorableMembers(data) :
                   \E l \in NewLines :
                     l.lvl = "WARNING" /\ data.links[i] \in Range(l.arg)

\* C19 as stated: for a scene of the snapshot without light states an error
\* is recorded, no PUT or POST is sent for it and it gets no entry in the
\* scene map.
C19_NoStatesError ==
  [][(InLoop("scenes") /\ ~IsSome(SceneAt.lightstates)) =>
       /\ errors' # errors
       /\ calls' = calls
       /\ map_scene' = map_scene]_vars

\* C19 as the code has it: for a scene of the snapshot without light states
\* no PUT or POST is sent and it gets no entry in the scene map, now or
\* later; the error is recorded, and the loop goes on, when the scene gets as
\* far as the check of its light states (a scene whose group is in no map or
\* none of whose lights is in the map is left out before that, without an
\* error); and whatever refers to the scene later is not written with the
\* reference.
C19_NoStatesUnrestorable ==
  /\ [](\A u \in Unrestorable : u \notin DOMAIN map_scene)
  /\ [][/\ (InLoop("scenes") /\ ~IsSome(SceneAt.lightstates)) =>
             /\ calls' = calls
             /\ map_scene' = map_scene
             /\ ReachesStates(SceneAt) =>
                  /\ NoStatesError(SceneAt.id) \in NewLines
                  /\ errors' = Append(errors, NoStatesError(SceneAt.id))
                  /\ pc' = pc
             /\ ~ReachesStates(SceneAt) => errors' = errors
        /\ LaterReferencesFail]_vars

\* the scene Ev had no light states and got its error, the scene Ze of the
\* group that is not restored had none either and got a warning only; then
\* the schedule and the rule with the scene Ev were left out, and the
\* resource link was written without the scene
C19_Witness ==
  /\ file = NoStatesSnapshot
  /\ Began("report")
  /\ errors = <<NoStatesError(<<"y","1">>)>>
  /\ \E i \in 1..Len(out) :
       out[i].lvl = "WARNING" /\ out[i].arg[1] = <<"y","6">>
  /\ DOMAIN map_scene = {<<"y","2">>}
  /\ DOMAIN map_schedule = {}
  /\ Id(2) \notin DOMAIN map_rule
  /\ \E c \in Range(calls) :
       /\ c.ok /\ IsWrite(c, "resourcelinks")
       /\ Len(c.req.body.links) = 1

\* the members of a group that are in the map, translated, and the names of
\* the others
MembersIn(ids, m) ==
  LET at == {i \in 1..Len(ids) : ids[i] \in DOMAIN m}
      RECURSIVE Upto(_)
      Upto(n) == IF n = 0 THEN <<>>
                 ELSE IF n \in at THEN Append(Upto(n - 1), m[ids[n]])
                 ELSE Upto(n - 1)
  IN Upto(Len(ids))

NamesOut(ids, m, coll) ==
  {Find(coll, ids[i]).name : i \in {j \in 1..Len(ids) : ids[j] \notin DOMAIN m}}

\* every member of the group is a light or a sensor of the snapshot
MembersHeld(data) ==
  /\ \A l \in Range(data.lights) : HasId(target.lights, l)
  /\ \A x \in Range(data.sensors) : HasId(target.sensors, x)

\* the groups of the bridge of the name, and the one the name leads to
GroupsNamed(name) == {i \in 1..Len(current.groups) : current.groups[i].name = name}
GroupNamed(name) ==
  current.groups[CHOOSE i \in GroupsNamed(name) : \A j \in GroupsNamed(name) : j <= i]

EntityAt(p) == target[p][idx + 1]
Matchable(p) == IF p = "rules" THEN Live(current.rules) ELSE current[p]
NamedLike(p) ==
  {i \in 1..Len(Matchable(p)) : Matchable(p)[i].name = EntityAt(p).name}
MatchedEntity(p) ==
  Matchable(p)[CHOOSE i \in NamedLike(p) : \A j \in NamedLike(p) : j <= i]
PhaseMap(p) ==
  IF p = "schedules" THEN map_schedule
  ELSE IF p = "rules" THEN map_rule ELSE map_resource_links

\* the entity passes rewriting: the command of a schedule maps, all
\* conditions and actions of a rule that is not deleted map, a member of a
\* resource link that is a rule maps
PassesRewriting(p) ==
  IF p = "schedules" THEN mapAction(EntityAt(p).command, TRUE).ok
  ELSE IF p = "rules"
  THEN /\ ~Deleted(EntityAt(p))
       /\ MapConditions(EntityAt(p).conditions, Len(EntityAt(p).conditions)).ok
       /\ MapActions(EntityAt(p).actions, Len(EntityAt(p).actions)).ok
  ELSE MapLinks(EntityAt(p).links, Len(EntityAt(p).links)).makes_sense

\* the step writes the entity with one request: a PUT to the entity of its
\* name if the bridge has one, else a POST, and with the request's success
\* the map of the phase sends the entity's id to the id written
WrittenOnce(p) ==
  /\ Len(NewCalls) = 1
  /\ NewCalls[1].req.rtype = p
  /\ IF NamedLike(p) # {}
     THEN /\ NewCalls[1].req.method = "PUT"
          /\ NewCalls[1].req.id = Some(MatchedEntity(p).id)
          /\ NewCalls[1].ok =>
               /\ EntityAt(p).id \in DOMAIN PhaseMap(p)'
               /\ PhaseMap(p)'[EntityAt(p).id] = MatchedEntity(p).id
     ELSE /\ NewCalls[1].req.method = "POST"
          /\ NewCalls[1].ok =>
               /\ EntityAt(p).id \in DOMAIN PhaseMap(p)'
               /\ PhaseMap(p)'[EntityAt(p).id] = HubNewId(hub)
               /\ HubHas(hub', p, HubNewId(hub))

RecycleDiffers(p) ==
  NamedLike(p) # {} /\ MatchedEntity(p).recycle # EntityAt(p).recycle

\* C21: a schedule, rule or resource link of the snapshot that passes
\* rewriting is written by exactly one PUT to the entity of its name on the
\* bridge (for rules: one that is not deleted) and by no POST, also when the
\* recycle flags differ, and then an error is recorded too; without an entity
\* of its name it is written by exactly one POST; the map sends its id to the
\* id written.
C21_UpdatedOrCreated ==
  [][\A p \in {"schedules", "rules", "resourcelinks"} :
       (InLoop(p) /\ PassesRewriting(p)) =>
         /\ WrittenOnce(p)
         /\ RecycleDiffers(p) => errors' # errors]_vars

\* the same for the entities whose recycle flag is the one of the bridge
C21_SameRecycle ==
  [][\A p \in {"schedules", "rules", "resourcelinks"} :
       (InLoop(p) /\ PassesRewriting(p) /\ ~RecycleDiffers(p)) =>
         WrittenOnce(p)]_vars

\* a rule was updated and another created
C21_SameRecycleWitness ==
  /\ pc = "rules" /\ stage = "loop"
  /\ \E c \in Range(calls) : c.ok /\ c.req.method = "PUT" /\ c.req.rtype = "rules"
  /\ \E c \in Range(calls) : c.ok /\ c.req.method = "POST" /\ c.req.rtype = "rules"
  /\ \E c \in Range(calls) : c.ok /\ c.req.method = "PUT" /\ c.req.rtype = "schedules"

\* the line is in the summary that ends the run
Summarized(line) ==
  \E j \in 1..Len(out) :
    /\ out[j].lvl = "REPORT"
    /\ out[j].msg = line.msg
    /\ out[j].arg = line.arg

\* C22: when a restore run has ended with its report, every warning and
\* every error that a phase of the run emitted is in the summary that the
\* report step printed.
C22_AllSummarized ==
  (pc = "exit" /\ Began("report")) =>
    \A i \in 1..Len(out) :
      out[i].lvl \in {"WARNING", "ERROR"} => Summarized(out[i])

\* the same for the errors alone: they are all in the summary
C22_ErrorsSummarized ==
  (pc = "exit" /\ Began("report")) =>
    /\ \A i \in 1..Len(out) : out[i].lvl = "ERROR" => Summarized(out[i])
    /\ \A i \in 1..Len(errors) : Summarized(errors[i])

\* a run ended with a summary of errors after warnings and errors
C22_ErrorsWitness ==
  /\ pc = "exit" /\ Began("report")
  /\ \E i \in 1..Len(out) : out[i].lvl = "WARNING"
  /\ \E i \in 1..Len(out) : out[i].lvl = "ERROR"
  /\ \E i \in 1..Len(out) : out[i].lvl = "REPORT" /\ out[i].arg # <<>>

\* the identity maps as restore() creates them: empty but for the seeds
SeedsOnly ==
  /\ map_light = EmptyMap
  /\ map_sensor = MapPut(EmptyMap, <<"1">>, <<"1">>)
  /\ map_group = MapPut(EmptyMap, <<"0">>, <<"0">>)
  /\ map_scene = EmptyMap
  /\ map_schedule = EmptyMap
  /\ map_rule = EmptyMap
  /\ map_resource_links = EmptyMap

\* a call of restore() has just started: a step took it to the first phase
RestoreStarts == Len(history') = Len(history) + 1 /\ pc' = PhaseAfter("fetch")

\* C23: at the start of every call of restore() on a HueBackup object, a
\* second call included, the seven identity maps hold only their seeds and
\* the list of errors is empty, so the summary at the end of a run lists the
\* errors of that run only.
C23_FreshPerRun ==
  [][RestoreStarts => (SeedsOnly' /\ errors' = <<>>)]_vars

\* the same for the maps alone
C23_MapsFresh ==
  [][RestoreStarts => SeedsOnly']_vars

\* a second call of restore() has started with the maps of the first one
\* gone
C23_MapsWitness ==
  /\ Restores = 1
  /\ pc = "lights" /\ stage = "enter"
  /\ SeedsOnly
  /\ \E c \in Range(calls) : c.ok /\ c.req.method = "POST"

\* the phase that flushes the renames of a type, and the renames of a step
FlushOf(rtype) == IF rtype = "lights" THEN "flush_lights" ELSE "flush_sensors"
IsRename(c, rtype) == c.req.method = "PUT" /\ c.req.rtype = rtype

\* the requests of the last n calls
LastRequests(n) ==
  [i \in 1..n |-> calls[Len(calls) - n + i].req]

\* C24: a PUT to lights/<id> or sensors/<id> is sent only by the flush that
\* follows the matching loop of its type, never by the loop; a step of a
\* flush sends the next request of the queue and no other; when a flush is
\* over every request of the queue has been sent once, in the order of the
\* queue, and the queue is empty before the next phase starts, so that the
\* flush after the sensors sends renames of sensors only.
C24_RenamesDeferred ==
  /\ [][/\ \A j \in 1..Len(NewCalls) : \A rtype \in {"lights", "sensors"} :
             IsRename(NewCalls[j], rtype) => pc = FlushOf(rtype)
        /\ (pc \in {"flush_lights", "flush_sensors"} /\ calls' # calls) =>
             /\ Len(NewCalls) = 1
             /\ idx < Len(updates)
             /\ NewCalls[1].req = updates[idx + 1]
             /\ NewCalls[1].ok => (idx' = idx + 1 /\ updates' = updates)
        /\ (pc \in {"flush_lights", "flush_sensors"} /\ pc' \notin {pc, "dead"}) =>
             /\ Len(calls) >= Len(updates)
             /\ LastRequests(Len(updates)) = updates
             /\ \A i \in 1..Len(updates) : calls[Len(calls) - Len(updates) + i].ok
             /\ updates' = <<>>
             /\ pc' = PhaseAfter(pc)]_vars
  /\ [](pc \in {"lights", "flush_lights"} =>
          \A i \in 1..Len(updates) : updates[i].rtype = "lights")
  /\ [](pc \in {"sensors", "flush_sensors"} =>
          \A i \in 1..Len(updates) : updates[i].rtype = "sensors")
  /\ [](pc \in RestorePhases \ {"lights", "flush_lights", "sensors", "flush_sensors"}
          => updates = <<>>)

\* a light and a sensor were renamed, each once, and the queue is empty when
\* the groups are restored
C24_Witness ==
  /\ pc = "groups"
  /\ updates = <<>>
  /\ Cardinality({i \in 1..Len(calls) : IsRename(calls[i], "lights") /\ calls[i].ok}) = 1
  /\ Cardinality({i \in 1..Len(calls) : IsRename(calls[i], "sensors") /\ calls[i].ok}) = 1
  /\ \E i, j \in 1..Len(calls) :
       /\ i < j
       /\ IsRename(calls[i], "lights")
       /\ calls[j].req.method = "POST" /\ calls[j].req.rtype = "sensors"

\* a group scene whose appdata.data is a tag of the Hue app was created
TagRewritten ==
  /\ probe.fn = "NewSceneData"
  /\ probe.data.type = "GroupScene"
  /\ IsSome(probe.data.appdata)
  /\ MATCH_HUEAPP_SCENEDATA(The(probe.data.appdata))

\* a group id padded with a zero to two digits
Padded(g) == IF Len(g) < 2 THEN <<"0">> \o g ELSE g

\* the tag written keeps prefix and suffix of the tag of the snapshot
KeepsEnds(old, new) ==
  /\ Len(new) >= 9
  /\ SubSeq(new, 1, 7) = SubSeq(old, 1, 7)
  /\ SubSeq(new, Len(new) - 3, Len(new)) = SubSeq(old, 10, 13)

\* C25 as stated: when a group scene is created whose appdata.data is a tag
\* of the Hue app, the data written is such a tag too, with the prefix and
\* the _d suffix of the old one and the new group id, padded with a zero to
\* two digits, as its _r field, whatever the new group id is.
C25_TagOfAnyGroup ==
  TagRewritten =>
    /\ MATCH_HUEAPP_SCENEDATA(probe.result)
    /\ KeepsEnds(The(probe.data.appdata), probe.result)
    /\ SubSeq(probe.result, 8, 9) = Padded(probe.group)

\* C25 as the code has it: the data written keeps the prefix and the _d
\* suffix and has the new group id, padded with a zero to two digits, between
\* _r and _d; it is a tag of the Hue app again when the new group id has at
\* most two digits, and with a longer group id it is not.
C25_TagOfShortGroup ==
  TagRewritten =>
    /\ KeepsEnds(The(probe.data.appdata), probe.result)
    /\ SubSeq(probe.result, 8, Len(probe.result) - 4) = Padded(probe.group)
    /\ MATCH_HUEAPP_SCENEDATA(probe.result) <=> Len(probe.group) <= 2

\* the tag of room 7 was rewritten for group 1, a line feed after it dropped
C25_Witness ==
  /\ TagRewritten
  /\ Len(The(probe.data.appdata)) = 14
  /\ probe.group = Id(1)
  /\ probe.result = <<"a","b","c","d","e","_","r","0","1","_","d","0","2">>


\* the ids an identity map gives
Values(m) == {m[k] : k \in DOMAIN m}

\* the id of a written address is one its map gives, or the address is one
\* of the configuration
WrittenRef(a, with_api) ==
  /\ RefOf(a, with_api).ok
  /\ \/ RefOf(a, with_api).g2 = S_config
     \/ /\ HasMap(RefOf(a, with_api).g2)
        /\ RefOf(a, with_api).g3 \in Values(MapFor(RefOf(a, with_api).g2))

\* the same for an action, with the scene of an action on a group
WrittenAction(a, with_api) ==
  /\ WrittenRef(a.address, with_api)
  /\ (RefOf(a.address, with_api).g2 = S_groups /\ IsSome(a.body.scene)) =>
       The(a.body.scene) \in Values(map_scene)

\* every id in the body of a request is one the map of its type gives
WrittenIds(rq) ==
  CASE rq.rtype = "groups" ->
         /\ Range(rq.body.lights) \subseteq Values(map_light)
         /\ Range(rq.body.sensors) \subseteq Values(map_sensor)
    [] rq.rtype = "scenes" ->
         /\ "group" \in DOMAIN rq.body => rq.body.group \in Values(map_group)
         /\ "lights" \in DOMAIN rq.body =>
              Range(rq.body.lights) \subseteq Values(map_light)
         /\ "lightstates" \in DOMAIN rq.body =>
              Range(The(rq.body.lightstates)) \subseteq Values(map_light)
    [] rq.rtype = "schedules" -> WrittenAction(rq.body.command, TRUE)
    [] rq.rtype = "rules" ->
         /\ \A i \in 1..Len(rq.body.conditions) :
              WrittenRef(rq.body.conditions[i], FALSE)
         /\ \A i \in 1..Len(rq.body.actions) :
              WrittenAction(rq.body.actions[i], FALSE)
    [] rq.rtype = "resourcelinks" ->
         \A i \in 1..Len(rq.body.links) : WrittenRef(rq.body.links[i], FALSE)
    [] OTHER -> TRUE

\* C26: in the body of every PUT and POST of a restore, the lights and
\* sensors of a group, the group, lights and light states of a scene, the id
\* of the address of a schedule's command, of a rule's conditions and
\* actions and of a resource link's members, and the scene of an action on a
\* group, are ids that the identity map of their type gives when the request
\* is sent, or the address is one of the configuration.
C26_WrittenIdsMapped ==
  [][\A j \in 1..Len(NewCalls) :
       NewCalls[j].req.method \in {"PUT", "POST"} => WrittenIds(NewCalls[j].req)]_vars

\* a restore wrote a group with light 1 for light 3 of the snapshot, a scene
\* with the id the bridge gave the group, and a rule on the switch that is
\* sensor 5 in the snapshot and sensor 2 on the bridge
C26_Witness ==
  /\ Began("report")
  /\ Id(3) \in DOMAIN map_light /\ map_light[Id(3)] = Id(1)
  /\ \E c \in Range(calls) :
       /\ c.ok /\ IsWrite(c, "groups") /\ c.req.body.lights = <<Id(1)>>
  /\ \E c \in Range(calls) :
       /\ c.ok /\ c.req.method = "POST" /\ c.req.rtype = "scenes"
       /\ "group" \in DOMAIN c.req.body
       /\ c.req.body.group \in Values(map_group) \ DOMAIN map_group
  /\ \E c \in Range(calls) :
       /\ c.ok /\ IsWrite(c, "rules")
       /\ \E i \in 1..Len(c.req.body.conditions) :
            /\ RefOf(c.req.body.conditions[i], FALSE).g2 = S_sensors
            /\ RefOf(c.req.body.conditions[i], FALSE).g3
                 \in Values(map_sensor) \ DOMAIN map_sensor


\* the entity of the bridge has the natural key of an entity of the
\* snapshot: the uniqueid of a light or sensor, the key of a scene (that of
\* the snapshot's scene is made with the group the map gives), the name of
\* any other
KeyMatched(rtype, e) ==
  IF rtype \in {"lights", "sensors"}
  THEN /\ IsSome(e.uniqueid)
       /\ \E i \in 1..Len(target[rtype]) : target[rtype][i].uniqueid = e.uniqueid
  ELSE IF rtype = "scenes"
  THEN /\ IsSome(sceneKey(e.id, e, FALSE))
       /\ \E i \in 1..Len(target.scenes) :
            sceneKey(target.scenes[i].id, target.scenes[i], TRUE)
              = sceneKey(e.id, e, FALSE)
  ELSE \E i \in 1..Len(target[rtype]) : target[rtype][i].name = e.name

\* the entities the bridge had when the run started that no entity of the
\* snapshot matches
Strangers(rtype) ==
  {e \in Range(current[rtype]) : ~KeyMatched(rtype, e)}

Touches(c, rtype, id) ==
  /\ c.req.method \in {"PUT", "DELETE"}
  /\ c.req.rtype = rtype
  /\ c.req.id = Some(id)

\* C27: no PUT and no DELETE of a restore goes to an entity that the bridge
\* had at the start and that matches no entity of the snapshot by its
\* natural key; a DELETE goes to a resource link only, and to one that has
\* the name of a link of the snapshot or that the run has written (its id
\* is one the resource-link map gives).
C27_Frame ==
  [][\A j \in 1..Len(NewCalls) :
       /\ \A rtype \in ResourceTypes : \A e \in Strangers(rtype) :
            ~Touches(NewCalls[j], rtype, e.id)
       /\ NewCalls[j].req.method = "DELETE" =>
            /\ NewCalls[j].req.rtype = "resourcelinks"
            /\ \/ /\ HasId(current.resourcelinks, The(NewCalls[j].req.id))
                  /\ KeyMatched("resourcelinks",
                                Find(current.resourcelinks, The(NewCalls[j].req.id)))
               \/ The(NewCalls[j].req.id) \in Values(map_resource_links)]_vars

\* a restore that renamed light 1 and deleted a resource link is over, and
\* light 2, which no light of the snapshot matches, got no request
C27_Witness ==
  /\ Began("report")
  /\ Find(current.lights, Id(2)) \in Strangers("lights")
  /\ \A c \in Range(calls) : ~Touches(c, "lights", Id(2))
  /\ \E c \in Range(calls) : c.ok /\ Touches(c, "lights", Id(1))
  /\ \E c \in Range(calls) :
       c.ok /\ c.req.method = "DELETE" /\ c.req.rtype = "resourcelinks"


\* the links the bridge had at the start with the name of the link at hand
Namesakes ==
  {e \in Range(current.resourcelinks) : e.name = EntityAt("resourcelinks").name}

\* the rewritten member addresses of the link at hand, and whether one of
\* them is a rule
KeptMembers == SelectSeq(EntityAt("resourcelinks").links, Rewrites)
HasRuleMember ==
  \E i \in 1..Len(KeptMembers) : mapAddress(KeptMembers[i], FALSE).ctype = S_rules

\* C28: a link of the snapshot gets a PUT or POST, and an entry in the
\* resource-link map, only if one of its member addresses that rewrite is a
\* rule; for a link with rewritten members none of which is a rule, the step
\* sends one DELETE to a link of its name that the bridge had at the start,
\* and the link is gone when the request succeeds, or nothing if there was
\* no such link; for a link none of whose members rewrites the step sends no
\* request and leaves the bridge as it is.
C28_LinksNeedRule ==
  [][InLoop("resourcelinks") =>
       /\ (\/ \E j \in 1..Len(NewCalls) : IsWrite(NewCalls[j], "resourcelinks")
           \/ map_resource_links' # map_resource_links) => HasRuleMember
       /\ (KeptMembers # <<>> /\ ~HasRuleMember) =>
            /\ map_resource_links' = map_resource_links
            /\ IF Namesakes = {} THEN NewCalls = <<>>
               ELSE /\ Len(NewCalls) = 1
                    /\ NewCalls[1].req.method = "DELETE"
                    /\ NewCalls[1].req.rtype = "resourcelinks"
                    /\ \E e \in Namesakes : NewCalls[1].req.id = Some(e.id)
                    /\ NewCalls[1].ok =>
                         ~HubHas(hub', "resourcelinks", The(NewCalls[1].req.id))
       /\ KeptMembers = <<>> =>
            /\ NewCalls = <<>>
            /\ hub' = hub
            /\ map_resource_links' = map_resource_links]_vars

\* the phase wrote link 1 of the bridge for a link with a rule, and then
\* deleted it for a link of the same name whose only member is a sensor
C28_Witness ==
  /\ pc = "resourcelinks" /\ stage = "loop" /\ idx = 2
  /\ Len(target.resourcelinks) = 2
  /\ target.resourcelinks[2].links = <<Addr(S_sensors, Id(5), <<>>)>>
  /\ mapAddress(target.resourcelinks[2].links[1], FALSE).ok
  /\ \E i, j \in 1..Len(calls) :
       /\ i < j
       /\ calls[i].ok /\ IsWrite(calls[i], "resourcelinks")
       /\ calls[i].req.id = Some(Id(1))
       /\ calls[j].ok /\ calls[j].req.method = "DELETE"
       /\ calls[j].req.rtype = "resourcelinks" /\ calls[j].req.id = Some(Id(1))
  /\ ~HubHas(hub, "resourcelinks", Id(1))

=============================================================================
